---- MODULE Spec2Model ----
(***************************************************************************)
(* A model of the airguitar RAOP receiver: the reorder buffer              *)
(* (player/frame_buffer.rs), the Player actor (player/mod.rs) and the      *)
(* RTSP handler (rtsp/handler.rs).                                         *)
(***************************************************************************)
EXTENDS Integers, Sequences, FiniteSets, TLC

(***************************************************************************)
(* rtp_rs::Seq: a 16 bit sequence number.  next() wraps, and the order     *)
(* (PartialOrd/Ord) is the sign of the wrapped difference, as in RFC 1982. *)
(***************************************************************************)
SeqMod == 65536
I16Min == -32768
I16Max == 32767

\* bounds of the model: the inputs are a window of WindowLen sequence
\* numbers starting at WindowStart, so that the 65535 -> 0 wrap is inside it
WindowStart == 65534
WindowLen == 4
NumFrames == 2
MaxPops == 5

SeqInputs == {(WindowStart + i) % SeqMod : i \in 0..(WindowLen - 1)}
Frames == 1..NumFrames

\* Option<T>: None is the empty sequence, Some(x) a sequence of one element
None == <<>>
Some(x) == <<x>>

\* Seq::next
SeqNext(s) == (s + 1) % SeqMod

\* impl Sub for Seq: the wrapped difference, in -32768..32767
SeqSub(a, b) ==
    LET delta == a - b
    IN  IF delta < I16Min THEN (SeqMod - 1) + 1 + delta
        ELSE IF delta > I16Max THEN delta - (SeqMod - 1) - 1
        ELSE delta

\* impl Ord for Seq: (a - b).cmp(&0)
SeqLt(a, b) == SeqSub(a, b) < 0
SeqLe(a, b) == SeqSub(a, b) <= 0

\* the number of next() steps that lead from a to b
SeqDist(a, b) == (b - a) % SeqMod

\* Range<Seq>::is_empty: !(start < end)
RangeIsEmpty(r) == ~SeqLt(r.start, r.end)

\* Range<Seq>::seq_iter: start, start.next(), ... while the item is < end
RECURSIVE SeqIterFrom(_, _)
SeqIterFrom(cur, end) ==
    IF ~SeqLt(cur, end) THEN {} ELSE {cur} \cup SeqIterFrom(SeqNext(cur), end)

RangeSet(r) == SeqIterFrom(r.start, r.end)

(***************************************************************************)
(* FrameBuffer: data is the BTreeMap<Seq, frame>, a function from the      *)
(* stored keys to their frames.  All keys of the model lie in a window     *)
(* shorter than 2^15, where the order of Seq is total.                     *)
(***************************************************************************)
EmptyMap == [k \in {} |-> 0]

MapInsert(m, k, v) == [x \in (DOMAIN m) \cup {k} |-> IF x = k THEN v ELSE m[x]]
MapRemoveAll(m, ks) == [x \in (DOMAIN m) \ ks |-> m[x]]
MapGet(m, k) == IF k \in DOMAIN m THEN Some(m[k]) ELSE None

\* FrameBuffer::new
new(initial_seq) ==
    [data |-> EmptyMap, read_marker |-> initial_seq, write_marker |-> initial_seq]

\* add_packet with the range started at the old write_marker itself
add_packet_from_old(b, seq, packet) ==
    [buf |-> [data |-> MapInsert(b.data, seq, packet),
              read_marker |-> b.read_marker,
              write_marker |-> seq],
     ret |-> [start |-> b.write_marker, end |-> seq]]

\* FrameBuffer::add_packet: returns the buffer and the Range<Seq>
add_packet(b, seq, packet) ==
    LET old_write_marker == b.write_marker
    IN  [buf |-> [data |-> MapInsert(b.data, seq, packet),
                  read_marker |-> b.read_marker,
                  write_marker |-> seq],
         ret |-> [start |-> SeqNext(old_write_marker), end |-> seq]]

\* flush that also removes the entry of the requested seq
flush_through(b, seq) ==
    LET passed == {k \in DOMAIN b.data :
                      SeqDist(b.read_marker, k) <= SeqDist(b.read_marker, seq)}
    IN  [data |-> MapRemoveAll(b.data, passed),
         read_marker |-> seq,
         write_marker |-> b.write_marker]

\* FrameBuffer::flush: the loop removes read_marker, read_marker.next(), ...
\* until read_marker == seq: the keys at fewer next() steps from read_marker
\* than seq is
flush(b, seq) ==
    LET passed == {k \in DOMAIN b.data :
                      SeqDist(b.read_marker, k) < SeqDist(b.read_marker, seq)}
    IN  [data |-> MapRemoveAll(b.data, passed),
         read_marker |-> seq,
         write_marker |-> b.write_marker]

\* pop_front that leaves read_marker where it is
pop_front_keep_marker(b) ==
    [buf |-> [data |-> MapRemoveAll(b.data, {b.read_marker}),
              read_marker |-> b.read_marker,
              write_marker |-> b.write_marker],
     ret |-> MapGet(b.data, b.read_marker)]

\* pop_front that moves read_marker on whether or not a frame was stored
pop_front_always_advance(b) ==
    [buf |-> [data |-> MapRemoveAll(b.data, {b.read_marker}),
              read_marker |-> SeqNext(b.read_marker),
              write_marker |-> b.write_marker],
     ret |-> MapGet(b.data, b.read_marker)]

\* pop_front that takes the entry of the lowest u16 key
pop_front_lowest(b) ==
    IF DOMAIN b.data = {} THEN [buf |-> b, ret |-> None]
    ELSE LET k == CHOOSE x \in DOMAIN b.data : \A y \in DOMAIN b.data : x <= y
         IN  [buf |-> [data |-> MapRemoveAll(b.data, {k}),
                       read_marker |-> SeqNext(k),
                       write_marker |-> b.write_marker],
              ret |-> Some(b.data[k])]

\* FrameBuffer::pop_front: returns the buffer and the Option<frame>
pop_front(b) ==
    LET data == MapGet(b.data, b.read_marker)
    IN  [buf |-> [data |-> MapRemoveAll(b.data, {b.read_marker}),
                  read_marker |-> IF data # None THEN SeqNext(b.read_marker)
                                  ELSE b.read_marker,
                  write_marker |-> b.write_marker],
         ret |-> data]

VARIABLES
    frame_buffer,   \* the FrameBuffer
    call,           \* the last call on the buffer, its arguments and result
    in_order,       \* history: no add was older than write_marker and no
                    \* flush went beyond write_marker.next() so far
    drain,          \* history: the add being followed and the pops after it
    fresh,          \* history: only add_packet was called since new
    player,         \* Player::run: its state and its locals
    control_chan,   \* the mpsc channel to the ControlSender of the last Setup
    pev,            \* the last step of the Player and what it did
    client,         \* the RTSP client of one connection: requests sent, closed
    handler,        \* Handler::run of that connection
    conn,           \* Connection: the BufWriter and what reached the socket
    response,       \* the response written for the request last read
    player_rx,      \* the command channel of the Player
    workers,        \* the media workers that have not returned yet
    requester,      \* the RTSP handlers as senders of commands
    env,            \* how much input the environment has given so far
    sysev,          \* the last command the Player took from its channel
    sink,           \* the rodio Sink of the Player and its queue of sources
    server          \* server::run, its Listener and the tasks it started

bufHist == <<call, in_order>>
drainHist == <<drain, fresh>>
bufVars == <<frame_buffer, call, in_order, drain, fresh>>
playerVars == <<player, control_chan, pev>>
handlerVars == <<client, handler, conn, response>>
systemVars == <<player_rx, workers, requester, env, sysev, server>>
notBuffer == <<playerVars, handlerVars, systemVars, sink>>
notPlayer == <<bufVars, handlerVars, systemVars, sink>>
notHandler == <<bufVars, playerVars, systemVars, sink>>
notServer == <<bufVars, playerVars, handlerVars,
               player_rx, workers, requester, env, sysev, sink>>
vars == <<frame_buffer, call, in_order, drain, fresh, player, control_chan, pev,
          client, handler, conn, response,
          player_rx, workers, requester, env, sysev, sink, server>>

NoDrain == [active |-> FALSE, seq |-> 0, frame |-> 0, rm0 |-> 0,
            data0 |-> EmptyMap, log |-> <<>>]

NoCall == [op |-> "new", prev |-> "none", seq |-> 0, frame |-> None,
           ret |-> None, range |-> [start |-> 0, end |-> 0],
           old_write_marker |-> 0, stored |-> None, target |-> 0,
           highest |-> None]

(* Player::run before its first command: every local is None, and there is
   no control channel yet (control_tx is None until the first Setup). *)
NoPlayer == [state |-> "running", notify_shutdown |-> FALSE, encryption |-> None,
             cipher |-> FALSE, alac |-> FALSE, frame_buffer |-> None,
             control_tx |-> FALSE, airplay_volume |-> 0]
NoChan == [queue |-> <<>>, open |-> FALSE]
NoPev == [kind |-> "none", seq |-> 0, old_write_marker |-> 0, range |-> None,
          sent |-> None, delivered |-> FALSE, message |-> None]

PlayerIdle ==
    /\ player = NoPlayer
    /\ control_chan = NoChan
    /\ pev = NoPev

(* A connection just accepted: nothing sent, nothing read, nothing written. *)
NoRequest == [kind |-> "none", method |-> "none", cseq |-> None,
              challenge |-> "none", variant |-> "good"]
(* stream_buf and wire are the BufWriter and what it has written to the
   socket; arrived is what the peer sent and read_buf has not taken yet;
   buffer is the read buffer. *)
NoConn == [stream_buf |-> <<>>, wire |-> <<>>, arrived |-> <<>>, buffer |-> <<>>]

HandlerIdle ==
    /\ client = [sent |-> 0, closed |-> FALSE]
    /\ handler = [pc |-> "reading", read |-> 0, request |-> NoRequest,
                  command |-> None]
    /\ conn = NoConn
    /\ response = None

(* The process before any connection: the command channel is empty, no
   media worker exists, no handler has sent a command. *)
NoCommand == [kind |-> "none", from |-> "none", seq |-> 0, enc |-> "none", ok |-> FALSE]
NoSysev == [kind |-> "none", cmd |-> NoCommand, replied |-> "none"]

(* Sink::try_new: nothing appended.  first says where the buffer of the
   first source is: still the Player's frame_buffer ("current") or replaced
   there by a later Record ("old": nothing but the source reaches it any
   more, and what it still holds is not followed); queued says that sources
   wait behind the first; pulled is the source the last sample came from. *)
NoSink == [first |-> "none", queued |-> FALSE, pulled |-> "none"]

(* server::run up to its select: the bus and the completion channel are
   made, the Listener is about to accept, the mDNS responder and the Player
   are there, no connection has been accepted. *)
NoAccept == [pc |-> "accepting", backoff |-> 1, failed |-> 0, waits |-> <<>>]
NoServer ==
    [pc |-> "select", notify_shutdown |-> TRUE, signal |-> FALSE,
     listener |-> "running", accept |-> NoAccept,
     last |-> [result |-> "none", failed |-> 0],
     handlers |-> <<>>, mdns |-> "running", player |-> "running",
     bus |-> FALSE, media |-> {}, returned |-> {},
     requests |-> 0]

SystemIdle ==
    /\ player_rx = <<>>
    /\ workers = [i \in {} |-> "none"]
    /\ requester = [h \in {} |-> "none"]
    /\ env = [commands |-> 0, datagrams |-> 0, setups |-> 0, cap |-> 0]
    /\ sysev = NoSysev
    /\ sink = NoSink
    /\ server = NoServer

BufInit ==
    /\ \E s \in SeqInputs : frame_buffer = new(s)
    /\ call = NoCall
    /\ in_order = TRUE
    /\ drain = NoDrain
    /\ fresh = TRUE
    /\ PlayerIdle
    /\ HandlerIdle
    /\ SystemIdle

BufAdd(seq, packet) ==
    LET r == add_packet(frame_buffer, seq, packet)
    IN  /\ frame_buffer' = r.buf
        /\ call' = [NoCall EXCEPT !.op = "add", !.prev = call.op, !.seq = seq,
                                  !.frame = Some(packet), !.range = r.ret,
                                  !.old_write_marker = frame_buffer.write_marker,
                                  !.highest = IF call.highest = None
                                                 \/ SeqLt(call.highest[1], seq)
                                              THEN Some(seq) ELSE call.highest]
        /\ in_order' = (in_order /\ SeqLe(frame_buffer.write_marker, seq))
        /\ UNCHANGED <<drainHist, notBuffer>>

BufFlush(seq) ==
    /\ frame_buffer' = flush(frame_buffer, seq)
    /\ call' = [NoCall EXCEPT !.op = "flush", !.prev = call.op, !.seq = seq,
                              !.stored = MapGet(frame_buffer.data, seq),
                              !.target = seq,
                              !.highest = call.highest]
    /\ in_order' = (in_order /\ SeqLe(seq, SeqNext(frame_buffer.write_marker)))
    /\ UNCHANGED <<drainHist, notBuffer>>

BufPop ==
    LET r == pop_front(frame_buffer)
    IN  /\ frame_buffer' = r.buf
        /\ call' = [NoCall EXCEPT !.op = "pop", !.prev = call.op,
                                  !.seq = frame_buffer.read_marker,
                                  !.ret = r.ret,
                                  !.stored = IF call.op = "flush" THEN call.stored
                                             ELSE None,
                                  !.target = IF call.op = "flush" THEN call.target
                                             ELSE 0,
                                  !.highest = call.highest]
        /\ UNCHANGED <<in_order, drainHist, notBuffer>>

BufNext ==
    \/ \E seq \in SeqInputs, packet \in Frames :
          BufAdd(seq, packet)
    \/ \E seq \in SeqInputs : BufFlush(seq)
    \/ BufPop

SpecBuffer == BufInit /\ [][BufNext]_vars

(***************************************************************************)
(* The buffer followed from one add_packet on: any calls first (FillAdd,   *)
(* FillFlush, FillPop), then one add_packet (WatchAdd) and after it        *)
(* pop_front only (DrainPop), with every pop's key and result logged.      *)
(***************************************************************************)
FillAdd(seq, packet) ==
    /\ ~drain.active
    /\ frame_buffer' = add_packet(frame_buffer, seq, packet).buf
    /\ UNCHANGED <<drain, fresh, bufHist, notBuffer>>

FillFlush(seq) ==
    /\ ~drain.active
    /\ frame_buffer' = flush(frame_buffer, seq)
    /\ fresh' = FALSE
    /\ UNCHANGED <<drain, bufHist, notBuffer>>

FillPop ==
    /\ ~drain.active
    /\ frame_buffer' = pop_front(frame_buffer).buf
    /\ fresh' = FALSE
    /\ UNCHANGED <<drain, bufHist, notBuffer>>

WatchAdd(seq, packet) ==
    LET r == add_packet(frame_buffer, seq, packet)
    IN  /\ ~drain.active
        /\ frame_buffer' = r.buf
        /\ drain' = [active |-> TRUE, seq |-> seq, frame |-> packet,
                     rm0 |-> r.buf.read_marker, data0 |-> r.buf.data,
                     log |-> <<>>]
        /\ UNCHANGED <<fresh, bufHist, notBuffer>>

DrainPop ==
    LET r == pop_front(frame_buffer)
    IN  /\ drain.active
        /\ Len(drain.log) < MaxPops
        /\ frame_buffer' = r.buf
        /\ drain' = [drain EXCEPT !.log =
                        Append(@, [key |-> frame_buffer.read_marker, ret |-> r.ret])]
        /\ UNCHANGED <<fresh, bufHist, notBuffer>>

DrainNext ==
    \/ \E seq \in SeqInputs, packet \in Frames : FillAdd(seq, packet)
    \/ \E seq \in SeqInputs : FillFlush(seq)
    \/ FillPop
    \/ \E seq \in SeqInputs, packet \in Frames : WatchAdd(seq, packet)
    \/ DrainPop

SpecDrain == BufInit /\ [][DrainNext]_vars

(***************************************************************************)
(* The claims about the pops that follow an add, under SpecDrain.          *)
(***************************************************************************)

\* every slot from read_marker through the added seq held a frame when
\* add_packet returned, and seq was not behind read_marker
DrainFull ==
    /\ SeqLe(drain.rm0, drain.seq)
    /\ \A i \in 0..SeqDist(drain.rm0, drain.seq) :
          (drain.rm0 + i) % SeqMod \in DOMAIN drain.data0

\* every pop so far returned the frame stored at the read_marker of its
\* time, or nothing
DrainPopsStoredOrAbsent ==
    \A i \in 1..Len(drain.log) :
        \/ drain.log[i].ret = None
        \/ drain.log[i].ret = MapGet(drain.data0, drain.log[i].key)

\* C1 as stated: after add(s, f), pop_front called repeatedly returns the
\* stored frame of the slot at read_marker or nothing, and one of the first
\* distance(read_marker, s)+1 calls returns f from slot s.
C1_PopsReachAdded ==
    drain.active =>
        /\ DrainPopsStoredOrAbsent
        /\ Len(drain.log) >= SeqDist(drain.rm0, drain.seq) + 1 =>
              \E i \in 1..(SeqDist(drain.rm0, drain.seq) + 1) :
                  drain.log[i] = [key |-> drain.seq, ret |-> Some(drain.frame)]

\* C1 amended: after add(s, f), pop_front called repeatedly returns the
\* stored frame of the slot at read_marker or nothing, and if every slot from
\* read_marker through s holds a frame when add returns, call number
\* distance(read_marker, s)+1 returns f from slot s.
C1_PopsReachAddedIfFull ==
    drain.active =>
        /\ DrainPopsStoredOrAbsent
        /\ (DrainFull /\ Len(drain.log) >= SeqDist(drain.rm0, drain.seq) + 1) =>
              drain.log[SeqDist(drain.rm0, drain.seq) + 1] =
                  [key |-> drain.seq, ret |-> Some(drain.frame)]

\* the added frame came out of the third pop or a later one
C1_Witness ==
    /\ drain.active /\ DrainFull
    /\ SeqDist(drain.rm0, drain.seq) >= 2
    /\ Len(drain.log) = SeqDist(drain.rm0, drain.seq) + 1
    /\ drain.log[Len(drain.log)].ret = Some(drain.frame)

\* the stored keys are start, start.next(), ... with no gap
GapFree(m, start) ==
    DOMAIN m = {(start + i) % SeqMod : i \in 0..(Cardinality(DOMAIN m) - 1)}

\* C7: once a gap-free set of sequence numbers starting at the initial
\* sequence has been added, in any order, successive pops return their frames
\* in ascending sequence order, each once, and nothing after the last.
C7_PopsAscending ==
    (drain.active /\ fresh /\ GapFree(drain.data0, drain.rm0)) =>
        \A i \in 1..Len(drain.log) :
            LET k == (drain.rm0 + i - 1) % SeqMod
            IN  IF i <= Cardinality(DOMAIN drain.data0)
                THEN drain.log[i] = [key |-> k, ret |-> Some(drain.data0[k])]
                ELSE drain.log[i].ret = None

\* three or more packets, the last to arrive not the highest, all popped and
\* one more pop made
C7_Witness ==
    /\ drain.active /\ fresh /\ GapFree(drain.data0, drain.rm0)
    /\ Cardinality(DOMAIN drain.data0) >= 3
    /\ SeqNext(drain.seq) \in DOMAIN drain.data0
    /\ Len(drain.log) > Cardinality(DOMAIN drain.data0)

(***************************************************************************)
(* The reorder buffer's claims, under SpecBuffer.                          *)
(***************************************************************************)

\* C2 as stated: read_marker <= write_marker (wrap-aware) in every reachable
\* state of the buffer.
C2_ReadLeWrite ==
    SeqLe(frame_buffer.read_marker, frame_buffer.write_marker)

\* C2 amended: as long as no add_packet was older than the write_marker of
\* its time and no flush went beyond write_marker.next(), read_marker is at
\* most write_marker.next() (popping the last frame puts it there).
C2_ReadLeWriteNext ==
    in_order => SeqLe(frame_buffer.read_marker, SeqNext(frame_buffer.write_marker))

\* a pop took the last stored frame and left read_marker one past write_marker
C2_Witness ==
    /\ in_order
    /\ call.op = "pop" /\ call.ret # None
    /\ frame_buffer.read_marker = SeqNext(frame_buffer.write_marker)

\* C3 as stated: every stored key lies in [read_marker, write_marker]
\* (wrap-aware); no packet behind read_marker is left stored.
C3_KeysInRange ==
    \A k \in DOMAIN frame_buffer.data :
        /\ SeqLe(frame_buffer.read_marker, k)
        /\ SeqLe(k, frame_buffer.write_marker)

\* the sequence numbers strictly between a and b in the order of Seq, among
\* the window of the inputs and the items of r
Between(a, b, r) ==
    {x \in SeqInputs \cup RangeSet(r) \cup {SeqNext(a)} : SeqLt(a, x) /\ SeqLt(x, b)}

\* C4: the range add_packet returns holds exactly the sequence numbers
\* strictly between the previous write_marker and seq; it is empty for a
\* duplicate (seq = old write_marker) and for the successor of the old
\* write_marker, also across the 65535 -> 0 wrap.
C4_MissingRange ==
    call.op = "add" =>
        /\ RangeSet(call.range) = Between(call.old_write_marker, call.seq, call.range)
        /\ RangeIsEmpty(call.range) <=> (RangeSet(call.range) = {})
        /\ call.seq = call.old_write_marker => RangeIsEmpty(call.range)
        /\ call.seq = SeqNext(call.old_write_marker) => RangeIsEmpty(call.range)

\* an add across the wrap that skipped at least two sequence numbers
C4_Witness ==
    /\ call.op = "add"
    /\ call.seq < call.old_write_marker
    /\ Cardinality(RangeSet(call.range)) >= 2

\* C5: the pop_front that follows flush(t) returns the frame that was stored
\* at t when flush was called, or nothing if none was; the key of what it
\* returns is never less than t.
C5_PopAfterFlush ==
    (call.op = "pop" /\ call.prev = "flush") =>
        /\ call.ret = call.stored
        /\ call.ret # None => ~SeqLt(call.seq, call.target)

\* a pop right after a flush returned a frame
C5_Witness ==
    call.op = "pop" /\ call.prev = "flush" /\ call.ret # None

\* C6 as stated: flush(to) removes exactly the entries with key < to
\* (wrap-aware), keeps every entry with key >= to, and sets read_marker to to.
C6_FlushExact ==
    [][call'.op = "flush" =>
          /\ frame_buffer'.read_marker = call'.seq
          /\ frame_buffer'.data =
                 MapRemoveAll(frame_buffer.data,
                              {k \in DOMAIN frame_buffer.data : SeqLt(k, call'.seq)})]_vars

(* ------------------------------------------------------------------ *)
(* The Player actor (Player::run) and the ControlSender of its session. *)
(* Each command of the match is one action; a PutPacket whose send on   *)
(* the full control channel has to wait stays in state "sending" until  *)
(* PlayerSendResume.                                                    *)
(* ------------------------------------------------------------------ *)

ControlCap == 4
PlayerWindowStart == 65535
PlayerWindowLen == 3
PlayerSeqs == {(PlayerWindowStart + i) % SeqMod : i \in 0..(PlayerWindowLen - 1)}
DecodedFrame == 1

BufIdle ==
    /\ frame_buffer = new(WindowStart)
    /\ call = NoCall
    /\ in_order = TRUE
    /\ drain = NoDrain
    /\ fresh = TRUE

PlayerInit == BufIdle /\ PlayerIdle /\ HandlerIdle /\ SystemIdle

Event(kind) == [NoPev EXCEPT !.kind = kind]

(* The locals of run are dropped when it returns or unwinds: the session
   bus and the sender of the control channel go with them; the frame
   buffer is shared with the audio source and stays. *)
PlayerExit(p, how) ==
    [p EXCEPT !.state = how, !.notify_shutdown = FALSE, !.control_tx = FALSE]

Running == player.state = "running"

(* The arms of the match in Player::run as functions of the locals. *)
Announce(p, enc, fmtp_ok) ==
    IF enc = "short_key"
    THEN PlayerExit([p EXCEPT !.encryption = Some(enc)], "panicked")
    ELSE [p EXCEPT
            !.encryption = IF enc = "none" THEN None ELSE Some(enc),
            !.cipher = IF enc = "none" THEN p.cipher ELSE TRUE,
            !.alac = fmtp_ok]

Setup(p, sockets_ok) ==
    IF sockets_ok
    THEN [p EXCEPT !.notify_shutdown = TRUE, !.control_tx = TRUE]
    ELSE PlayerExit(p, "failed")

SetupChannel(chan, sockets_ok) ==
    IF sockets_ok THEN [queue |-> <<>>, open |-> TRUE] ELSE chan

Record(p, seq) == [p EXCEPT !.frame_buffer = Some(new(seq))]

(* sink.append(source) in the Record arm: the
   source joins the queue of the sink behind the sources appended before;
   the buffer the first source reads stops being the Player's. *)
SinkAppend(s) ==
    IF s.first = "none" THEN [s EXCEPT !.first = "current"]
    ELSE IF s.first = "current"
    THEN [s EXCEPT !.first = "old", !.queued = TRUE]
    ELSE [s EXCEPT !.queued = TRUE]

TeardownKeepsBus(p) ==
    [p EXCEPT !.encryption = None, !.cipher = FALSE, !.alac = FALSE]

Teardown(p) ==
    [p EXCEPT !.notify_shutdown = FALSE, !.encryption = None,
              !.cipher = FALSE, !.alac = FALSE]

(* The volume is an f64; here it is a whole number of 10^-7: one decimal
   more than GET_PARAMETER prints. *)
SetParameterIgnored(p, vol) == p

SetParameter(p, vol) == [p EXCEPT !.airplay_volume = vol]

GetParameter(p) == [volume |-> p.airplay_volume]

Flush(p, seq) ==
    IF p.frame_buffer # None
    THEN [p EXCEPT !.frame_buffer = Some(flush(p.frame_buffer[1], seq))]
    ELSE p

PlayerAnnounce(enc, fmtp_ok) ==
    /\ Running
    /\ player' = Announce(player, enc, fmtp_ok)
    /\ pev' = Event("announce")
    /\ UNCHANGED <<control_chan, notPlayer>>

PlayerSetup(sockets_ok) ==
    /\ Running
    /\ player' = Setup(player, sockets_ok)
    /\ control_chan' = SetupChannel(control_chan, sockets_ok)
    /\ pev' = Event("setup")
    /\ UNCHANGED notPlayer

PlayerRecord(seq) ==
    /\ Running
    /\ player' = Record(player, seq)
    /\ sink' = SinkAppend(sink)
    /\ pev' = Event("record")
    /\ UNCHANGED <<control_chan, bufVars, handlerVars, systemVars>>

PlayerTeardown ==
    /\ Running
    /\ player' = Teardown(player)
    /\ pev' = Event("teardown")
    /\ UNCHANGED <<control_chan, notPlayer>>

PlayerFlush(seq) ==
    /\ Running
    /\ player' = Flush(player, seq)
    /\ pev' = Event("flush")
    /\ UNCHANGED <<control_chan, notPlayer>>

PlayerShutdown ==
    /\ Running
    /\ player' = PlayerExit(player, "returned")
    /\ pev' = Event("shutdown")
    /\ UNCHANGED <<control_chan, notPlayer>>

(* if !missing_seqs.is_empty() { if let Some(ref control_tx) = control_tx {..} }:
   what PutPacket hands to control_tx.send, if anything. *)
MissingToSendAlways(missing_seqs, control_tx) ==
    IF control_tx THEN Some(missing_seqs) ELSE None

MissingToSend(missing_seqs, control_tx) ==
    IF ~RangeIsEmpty(missing_seqs) /\ control_tx THEN Some(missing_seqs) ELSE None

PutEvent(seq, old_wm, range, sent, delivered) ==
    [kind |-> "put", seq |-> seq, old_write_marker |-> old_wm, range |-> range,
     sent |-> sent, delivered |-> delivered, message |-> None]

(* The PutPacket arm: the locals, the control channel and the record of
   the step afterwards.  encryption.take() and cipher.take() are put back
   on every path that goes on to the next command.  decodes says whether
   decode_packet accepts the decrypted payload. *)
PutPacket(p, chan, seq, decodes) ==
    IF p.encryption = None \/ ~p.cipher \/ ~p.alac \/ ~decodes
    THEN [player |-> PlayerExit(p, "panicked"), chan |-> chan,
          pev |-> PutEvent(seq, 0, None, None, FALSE)]
    ELSE IF p.frame_buffer = None
    THEN [player |-> p, chan |-> chan, pev |-> PutEvent(seq, 0, None, None, FALSE)]
    ELSE LET old == p.frame_buffer[1]
             r == add_packet(old, seq, DecodedFrame)
             added == [p EXCEPT !.frame_buffer = Some(r.buf)]
             to_send == MissingToSend(r.ret, p.control_tx)
             room == Len(chan.queue) < ControlCap
         IN  IF to_send = None
             THEN [player |-> added, chan |-> chan,
                   pev |-> PutEvent(seq, old.write_marker, Some(r.ret), None, FALSE)]
             ELSE IF ~chan.open
             THEN [player |-> PlayerExit(added, "failed"), chan |-> chan,
                   pev |-> PutEvent(seq, old.write_marker, Some(r.ret), to_send, FALSE)]
             ELSE [player |-> IF room THEN added ELSE [added EXCEPT !.state = "sending"],
                   chan |-> IF room THEN [chan EXCEPT !.queue = Append(@, to_send[1])]
                                    ELSE chan,
                   pev |-> PutEvent(seq, old.write_marker, Some(r.ret), to_send, room)]

(* PutPacket comes from a ServerReceiver or ControlReceiver, and those are
   spawned by Setup, which also sets control_tx. *)
PlayerPutPacket(seq, decodes) ==
    /\ Running
    /\ player.control_tx
    /\ LET e == PutPacket(player, control_chan, seq, decodes)
       IN  /\ player' = e.player
           /\ control_chan' = e.chan
           /\ pev' = e.pev
    /\ UNCHANGED notPlayer

(* The send that waited for room completes, or fails because the receiver
   is gone. *)
PlayerSendResume ==
    /\ player.state = "sending"
    /\ \/ ~control_chan.open
       \/ Len(control_chan.queue) < ControlCap
    /\ IF ~control_chan.open
       THEN /\ player' = PlayerExit(player, "failed")
            /\ pev' = [pev EXCEPT !.kind = "put", !.message = None]
            /\ UNCHANGED control_chan
       ELSE /\ player' = [player EXCEPT !.state = "running"]
            /\ control_chan' = [control_chan EXCEPT !.queue = Append(@, pev.sent[1])]
            /\ pev' = [pev EXCEPT !.kind = "put", !.message = None, !.delivered = TRUE]
    /\ UNCHANGED notPlayer

(* A step of the ControlSender keeps the record of a put that is still
   waiting to be sent. *)
SenderEvent(kind, message) ==
    IF player.state = "sending"
    THEN [pev EXCEPT !.kind = kind, !.message = message]
    ELSE [Event(kind) EXCEPT !.message = message]

\* a ControlSender that looks at the oldest message and leaves it there
ControlSenderRecvKeeps ==
    /\ control_chan.open
    /\ Len(control_chan.queue) > 0
    /\ LET seqs == Head(control_chan.queue)
       IN  pev' = SenderEvent("control_send",
                              Some([start |-> seqs.start,
                                    count |-> Cardinality(RangeSet(seqs)) % SeqMod]))
    /\ UNCHANGED <<control_chan, player, notPlayer>>

(* ControlSender::run, the recv branch: one retransmit request on the
   control socket, with the start of the range and the number of
   sequence numbers seq_iter yields. *)
ControlSenderRecv ==
    /\ control_chan.open
    /\ Len(control_chan.queue) > 0
    /\ LET seqs == Head(control_chan.queue)
       IN  pev' = SenderEvent("control_send",
                              Some([start |-> seqs.start,
                                    count |-> Cardinality(RangeSet(seqs)) % SeqMod]))
    /\ control_chan' = [control_chan EXCEPT !.queue = Tail(@)]
    /\ UNCHANGED <<player, notPlayer>>

(* ControlSender::run, the shutdown branch: the session bus was dropped;
   the receiver of the control channel goes with the worker. *)
ControlSenderStop ==
    /\ control_chan.open
    /\ ~player.notify_shutdown
    /\ control_chan' = [queue |-> <<>>, open |-> FALSE]
    /\ pev' = SenderEvent("control_stop", None)
    /\ UNCHANGED <<player, notPlayer>>

PlayerNext ==
    \/ \E enc \in {"none", "ok", "short_key"}, fmtp_ok \in BOOLEAN :
           PlayerAnnounce(enc, fmtp_ok)
    \/ \E sockets_ok \in BOOLEAN : PlayerSetup(sockets_ok)
    \/ \E seq \in PlayerSeqs : PlayerRecord(seq)
    \/ PlayerTeardown
    \/ \E seq \in PlayerSeqs : PlayerFlush(seq)
    \/ PlayerShutdown
    \/ \E seq \in PlayerSeqs, decodes \in BOOLEAN : PlayerPutPacket(seq, decodes)
    \/ PlayerSendResume
    \/ ControlSenderRecv
    \/ ControlSenderStop

SpecPlayer == PlayerInit /\ [][PlayerNext]_vars

(* FrameBufferSource::next after pop_front returned ret: the frame, or
   silence when there is none. *)
SourceItem(ret) == IF ret # None THEN ret ELSE Some(0)

(* The Sink asks its current source, the first of its queue, for the next
   sample, and goes on to the source behind it when the answer is None.  The
   sink and the output stream are locals of Player::run and stop with it. *)
SinkPull ==
    /\ player.state \in {"running", "sending"}
    /\ sink.first # "none"
    /\ \E ret \in {None} \cup {Some(f) : f \in Frames \cup {DecodedFrame}} :
          /\ sink.first = "current" => ret = pop_front(player.frame_buffer[1]).ret
          /\ player' = IF sink.first = "current"
                        THEN [player EXCEPT !.frame_buffer =
                                 Some(pop_front(player.frame_buffer[1]).buf)]
                        ELSE player
          /\ sink' = IF SourceItem(ret) # None
                      THEN [sink EXCEPT !.pulled = "first"]
                      ELSE [first |-> IF sink.queued THEN "current" ELSE "none",
                            queued |-> FALSE,
                            pulled |-> IF sink.queued THEN "later" ELSE sink.pulled]
    /\ UNCHANGED <<control_chan, pev, bufVars, handlerVars, systemVars>>

SinkNext ==
    \/ PlayerNext
    \/ SinkPull

SpecSink == PlayerInit /\ [][SinkNext]_vars

(* The audio thread keeps asking the sink for samples. *)
SpecSinkFair == PlayerInit /\ [][SinkNext]_vars /\ WF_vars(SinkPull)

(* What a PutPacket step did: it handed a command to the control channel
   exactly when add_packet ran and returned a non-empty range; the command
   carries that range, which starts after the old write marker and ends at
   the packet's sequence number; the packet is in the buffer by then; a
   delivered command is the newest in the channel. *)
PutSendsMissing ==
    pev.kind = "put" =>
        /\ (pev.sent # None) <=> (pev.range # None /\ ~RangeIsEmpty(pev.range[1]))
        /\ pev.sent # None =>
              /\ pev.sent = pev.range
              /\ pev.sent[1] = [start |-> SeqNext(pev.old_write_marker), end |-> pev.seq]
              /\ RangeSet(pev.sent[1]) # {}
              /\ pev.seq \in DOMAIN player.frame_buffer[1].data
              /\ player.frame_buffer[1].write_marker = pev.seq
        /\ pev.delivered =>
              /\ pev.sent # None
              /\ Len(control_chan.queue) > 0
              /\ control_chan.queue[Len(control_chan.queue)] = pev.sent[1]
        /\ (pev.sent # None /\ ~pev.delivered) => player.state \in {"sending", "failed"}

(* The control channel gets a new command only in a step that completes
   the send of a PutPacket, and the command is that packet's range. *)
OnlyPutSends ==
    Len(control_chan'.queue) > Len(control_chan.queue) =>
        /\ pev'.kind = "put"
        /\ pev'.delivered
        /\ control_chan'.queue = Append(control_chan.queue, pev'.sent[1])

(* C8: on PutPacket the Player sends MissingSeqs to the control-send worker
   exactly when add_packet returned a non-empty range, with exactly that
   range, after the packet was added; nothing else puts a command on the
   control channel. *)
C8_MissingSeqsSent == []PutSendsMissing /\ [][OnlyPutSends]_vars

C8_Witness ==
    /\ pev.kind = "put"
    /\ pev.delivered
    /\ pev.old_write_marker = 65535
    /\ RangeSet(pev.sent[1]) = {0}

(* ------------------------------------------------------------------ *)
(* One RTSP connection: Handler::run reads a request, executes it and   *)
(* writes the response before it reads again.  The client may send      *)
(* requests ahead; what a request says is fixed when it is read.  Each  *)
(* entry of conn.wire records the request it answers and how many       *)
(* requests had been read when it reached the socket.                   *)
(* ------------------------------------------------------------------ *)

MaxRequests == 3

NotAllowed == {"DESCRIBE", "PAUSE", "PLAY", "PLAY_NOTIFY", "REDIRECT"}
Methods == {"OPTIONS", "SETUP", "GET_PARAMETER", "SET_PARAMETER", "ANNOUNCE",
            "RECORD", "TEARDOWN", "FLUSH", "OTHER_EXTENSION"} \cup NotAllowed

(* The messages the n-th read can return.  variant: "bad_header" is a
   missing or unparsable Transport (SETUP), Content-Type other than
   text/parameters (SET_PARAMETER) or RTP-Info (RECORD, FLUSH);
   "bad_body" is a body that is not UTF-8, not a number after volume:, or
   not SDP with a media and fmtp.  challenge: the Apple-Challenge header
   is absent, decodable or not base64. *)
Requests(n) ==
    [kind : {"request"}, method : Methods, cseq : {None, Some(n)},
     challenge : {"none", "ok", "bad"},
     variant : {"good", "bad_header", "bad_body"}]
    \cup {[NoRequest EXCEPT !.kind = "response"],
          [NoRequest EXCEPT !.kind = "garbage"]}

(* The Player answers a command, or is gone (send or the oneshot fails). *)
PlayerReplies == {"ok", "closed"}

Builder(status, headers) ==
    [status |-> status, cseq |-> None, headers |-> headers, body |-> None]

(* add_default_headers: Server, the request's CSeq if it has one, and the
   Apple-Response when challenged; Err (None here) when the challenge
   cannot be decoded. *)
add_default_headers(request, response_builder) ==
    IF request.challenge = "bad"
    THEN None
    ELSE Some([response_builder EXCEPT
                 !.cseq = request.cseq,
                 !.headers = @ \cup {"Server"} \cup
                             (IF request.challenge = "ok"
                              THEN {"Apple-Response"} ELSE {})])

Done(resp, command) == [result |-> "ok", response |-> resp, command |-> command]
Failed(command) == [result |-> "err", response |-> None, command |-> command]
Panics == [result |-> "panic", response |-> None, command |-> None]

(* A response built with the default headers, after the command (if any)
   was answered. *)
WithDefaults(request, response_builder, command) ==
    LET d == add_default_headers(request, response_builder)
    IN  IF d = None THEN Failed(command) ELSE Done(d, command)

(* Handler::execute: the response to write (None: nothing is written), the
   command sent to the Player, and whether execute returned Ok, returned
   Err or panicked. *)
execute(request, reply) ==
    LET m == request.method
        v == request.variant
    IN
    IF m = "OPTIONS"
    THEN WithDefaults(request, Builder(200, {"Public"}), None)
    ELSE IF m = "SETUP"
    THEN IF v = "bad_header" THEN Done(None, None)
         ELSE IF reply = "closed" THEN Failed(Some("Setup"))
         ELSE WithDefaults(request,
                           IF reply = "ok" THEN Builder(200, {"Session", "Transport"})
                                           ELSE Builder(451, {}),
                           Some("Setup"))
    ELSE IF m = "GET_PARAMETER"
    THEN IF add_default_headers(request, Builder(200, {})) = None THEN Failed(None)
         ELSE IF reply = "closed" \/ v = "bad_body" THEN Failed(Some("GetParameter"))
         ELSE WithDefaults(request, Builder(200, {}), Some("GetParameter"))
    ELSE IF m = "SET_PARAMETER"
    THEN IF v = "bad_header" THEN Done(Some(Builder(451, {})), None)
         ELSE IF v = "bad_body" THEN Failed(None)
         ELSE IF reply = "closed" THEN Failed(Some("SetParameter"))
         ELSE WithDefaults(request, Builder(200, {}), Some("SetParameter"))
    ELSE IF m = "ANNOUNCE"
    THEN IF v = "bad_body" THEN Failed(None)
         ELSE IF reply = "closed" THEN Failed(Some("Announce"))
         ELSE WithDefaults(request,
                           IF reply = "ok" THEN Builder(200, {}) ELSE Builder(453, {}),
                           Some("Announce"))
    ELSE IF m \in {"RECORD", "FLUSH"}
    THEN LET command == IF m = "RECORD" THEN "Record" ELSE "Flush"
             hdrs == IF m = "RECORD" THEN {"Audio-Latency"} ELSE {}
         IN  IF add_default_headers(request, Builder(200, hdrs)) = None THEN Failed(None)
             ELSE IF v = "bad_header" THEN WithDefaults(request, Builder(200, hdrs), None)
             ELSE IF reply = "closed" THEN Failed(Some(command))
             ELSE WithDefaults(request, Builder(200, hdrs), Some(command))
    ELSE IF m = "TEARDOWN"
    THEN IF add_default_headers(request, Builder(200, {"Connection"})) = None
         THEN Failed(None)
         ELSE IF reply = "closed" THEN Failed(Some("Teardown"))
         ELSE WithDefaults(request, Builder(200, {"Connection"}), Some("Teardown"))
    ELSE IF m = "OTHER_EXTENSION"
    THEN Panics
    ELSE Done(Some(Builder(405, {})), None)

(* Connection::write_response: write_all into the BufWriter, then flush.
   now is the number of requests read so far. *)
write_all(c, entry) == [c EXCEPT !.stream_buf = Append(@, entry)]

stream_flush(c, now) ==
    [c EXCEPT
       !.stream_buf = <<>>,
       !.wire = c.wire \o [i \in 1..Len(c.stream_buf) |->
                              [req |-> c.stream_buf[i].req, at |-> now]]]

write_response_unflushed(c, req, now) ==
    write_all(stream_flush(c, now), [req |-> req])

write_response(c, req, now) ==
    stream_flush(write_all(c, [req |-> req]), now)

ClientSend ==
    /\ ~client.closed
    /\ client.sent < MaxRequests
    /\ client' = [client EXCEPT !.sent = @ + 1]
    /\ UNCHANGED <<handler, conn, response, notHandler>>

ClientClose ==
    /\ ~client.closed
    /\ client' = [client EXCEPT !.closed = TRUE]
    /\ UNCHANGED <<handler, conn, response, notHandler>>

(* read_message returned a message: a request goes to execute, a response
   hits unreachable!(), anything unparsable is an Err. *)
HandlerRead ==
    /\ handler.pc = "reading"
    /\ handler.read < client.sent
    /\ \E message \in Requests(handler.read + 1) :
          handler' = [pc |-> CASE message.kind = "request" -> "executing"
                             [] message.kind = "response" -> "panicked"
                             [] OTHER -> "failed",
                      read |-> handler.read + 1,
                      request |-> message,
                      command |-> None]
    /\ response' = None
    /\ UNCHANGED <<client, conn, notHandler>>

(* read_message at end of stream: None when the read buffer is empty, Err
   when the peer closed in the middle of a message. *)
HandlerEof(clean) ==
    /\ handler.pc = "reading"
    /\ handler.read = client.sent
    /\ client.closed
    /\ handler' = [handler EXCEPT !.pc = IF clean THEN "returned" ELSE "failed"]
    /\ UNCHANGED <<client, conn, response, notHandler>>

(* The shutdown branch of the select in run. *)
HandlerShutdown ==
    /\ handler.pc = "reading"
    /\ handler' = [handler EXCEPT !.pc = "returned"]
    /\ UNCHANGED <<client, conn, response, notHandler>>

(* execute, and the write of its response; write_ok is whether the socket
   still takes the bytes. *)
HandlerExecute(reply, write_ok) ==
    /\ handler.pc = "executing"
    /\ LET x == execute(handler.request, reply)
           written == x.result = "ok" /\ x.response # None /\ write_ok
       IN  /\ handler' = [handler EXCEPT
                            !.pc = IF x.result = "panic" THEN "panicked"
                                   ELSE IF x.result = "err" THEN "failed"
                                   ELSE IF x.response # None /\ ~write_ok THEN "failed"
                                   ELSE "reading",
                            !.command = x.command]
           /\ conn' = IF written
                      THEN write_response(conn, handler.read, handler.read)
                      ELSE conn
           /\ response' = IF written THEN x.response ELSE None
    /\ UNCHANGED <<client, notHandler>>

HandlerNext ==
    \/ ClientSend
    \/ ClientClose
    \/ HandlerRead
    \/ \E clean \in BOOLEAN : HandlerEof(clean)
    \/ HandlerShutdown
    \/ \E reply \in PlayerReplies, write_ok \in BOOLEAN : HandlerExecute(reply, write_ok)

HandlerInit == BufIdle /\ PlayerIdle /\ HandlerIdle /\ SystemIdle

SpecHandler == HandlerInit /\ [][HandlerNext]_vars

(* C9: every response the handler writes, the 405 and 451 ones included,
   carries the CSeq of the request it answers when that request has one,
   and no CSeq when it has none. *)
C9_CSeqEchoed ==
    response # None => response[1].cseq = handler.request.cseq

(* C10: within one connection the responses reach the socket in the order
   the requests were read; the response to request i is on the socket
   before request i+1 is read; there is no response to an unread request,
   and at most one to a request. *)
C10_ResponsesInReadOrder ==
    /\ conn.stream_buf = <<>>
    /\ \A i \in 1..Len(conn.wire) :
          /\ conn.wire[i].at = conn.wire[i].req
          /\ conn.wire[i].req \in 1..handler.read
    /\ \A i, j \in 1..Len(conn.wire) :
          i < j => conn.wire[i].req < conn.wire[j].req

C10_Witness ==
    /\ Len(conn.wire) = 2
    /\ conn.wire[1].req = 1
    /\ conn.wire[2].req = 3
    /\ client.sent = 3

(* ------------------------------------------------------------------ *)
(* The Player with its command channel, the handlers that send it       *)
(* commands, and the media workers of its sessions.  A worker is in     *)
(* workers, under <<session, name>>, from its spawn in Setup until it   *)
(* returns; the ControlSender of the newest session is alive while      *)
(* control_chan is open.  The session bus of a worker is alive while    *)
(* its session is the newest and _notify_shutdown holds the sender.     *)
(* ------------------------------------------------------------------ *)

(* The capacity of the command channel is fixed where the channel is made;
   env.cap holds it.  A session is followed with the smallest channel. *)
SessionCap == 1
MaxCommands == 2
MaxDatagrams == 2

WorkerNames == {"timing_sender", "timing_receiver", "control_sender",
                "control_receiver", "server_receiver"}
Receivers == {"control_receiver", "server_receiver"}
Sessions == 1..MaxCommands
Instances == Sessions \X WorkerNames

Cmd(kind, from, seq, enc, ok) ==
    [kind |-> kind, from |-> from, seq |-> seq, enc |-> enc, ok |-> ok]

(* The commands a handler sends: enc and ok of Announce are the encryption
   of the SDP and whether its fmtp yields a decoder; ok of Setup is whether
   the sockets can be bound and connected. *)
HandlerCommands(h) ==
    {Cmd("Announce", h, 0, enc, ok) : enc \in {"none", "ok", "short_key"}, ok \in BOOLEAN}
    \cup {Cmd("Setup", h, 0, "none", ok) : ok \in BOOLEAN}
    \cup {Cmd("Record", h, PlayerWindowStart, "none", TRUE),
          Cmd("Flush", h, PlayerWindowStart, "none", TRUE),
          Cmd("Teardown", h, 0, "none", TRUE)}

PlayerAlive == player.state \in {"running", "sending"}

\* one bus for every session: a later Setup would keep the earlier bus
BusAliveShared(session) == player.notify_shutdown

BusAlive(session) == session = env.setups /\ player.notify_shutdown

Alive(session, name) ==
    IF name = "control_sender" /\ session = env.setups
    THEN control_chan.open
    ELSE <<session, name>> \in DOMAIN workers

Without(f, i) == [x \in (DOMAIN f) \ {i} |-> f[x]]

(* The five spawns of Setup: the workers of earlier sessions that are still
   there stay, the ControlSender of the session before moves in with them,
   and the new session gets its workers (its ControlSender sits on the new
   control channel). *)
Spawn(ws, session, old_control_sender) ==
    [i \in DOMAIN ws
          \cup (IF old_control_sender THEN {<<session - 1, "control_sender">>} ELSE {})
          \cup {<<session, n>> : n \in WorkerNames \ {"control_sender"}} |->
        IF i \in DOMAIN ws THEN ws[i] ELSE "running"]

(* player_rx.recv(): the oldest command and the rest of the channel. *)
TakeNewest(q) == [cmd |-> q[Len(q)], rest |-> SubSeq(q, 1, Len(q) - 1)]

TakeCommand(q) == [cmd |-> Head(q), rest |-> Tail(q)]

(* resp.send(..): the handler whose one-shot the command carries. *)
ReplyToAny(cmd) == CHOOSE h \in DOMAIN requester : TRUE

ReplyTo(cmd) == cmd.from

(* The arm of the match for a command. *)
Arm(p, chan, c) ==
    CASE c.kind = "Announce" ->
           [player |-> Announce(p, c.enc, c.ok), chan |-> chan, pev |-> Event("announce")]
      [] c.kind = "Setup" ->
           [player |-> Setup(p, c.ok), chan |-> SetupChannel(chan, c.ok),
            pev |-> Event("setup")]
      [] c.kind = "Record" ->
           [player |-> Record(p, c.seq), chan |-> chan, pev |-> Event("record")]
      [] c.kind = "Flush" ->
           [player |-> Flush(p, c.seq), chan |-> chan, pev |-> Event("flush")]
      [] c.kind = "Teardown" ->
           [player |-> Teardown(p), chan |-> chan, pev |-> Event("teardown")]
      [] c.kind = "SetParameter" ->
           [player |-> SetParameter(p, c.volume), chan |-> chan,
            pev |-> Event("set_parameter")]
      [] c.kind = "GetParameter" ->
           [player |-> p, chan |-> chan, pev |-> Event("get_parameter")]
      [] OTHER -> PutPacket(p, chan, c.seq, c.ok)

Handlers == {"h1", "h2"}

(* The commands of a session without audio: what the workers and the
   Player do to each other does not depend on the reorder buffer. *)
SessionCommands(h) ==
    {Cmd("Announce", h, 0, "ok", TRUE), Cmd("Teardown", h, 0, "none", TRUE)}
    \cup {Cmd("Setup", h, 0, "none", ok) : ok \in BOOLEAN}

SystemInit(handlers, cap) ==
    /\ BufIdle
    /\ PlayerIdle
    /\ HandlerIdle
    /\ player_rx = <<>>
    /\ workers = [i \in {} |-> "none"]
    /\ requester = [h \in handlers |-> [pc |-> "idle", cmd |-> NoCommand]]
    /\ env = [commands |-> 0, datagrams |-> 0, setups |-> 0, cap |-> cap]
    /\ sysev = NoSysev
    /\ sink = NoSink
    /\ server = NoServer

SessionInit == SystemInit({"h1"}, SessionCap)

Room == Len(player_rx) < env.cap

(* player_tx.send(cmd).await? in a handler, then rx.await?: Err when the
   Player is gone, and a wait while the channel is full. *)
SysSend(h, cmd) ==
    /\ h \in DOMAIN requester
    /\ requester[h].pc \in {"idle", "replied"}
    /\ env.commands < MaxCommands
    /\ env' = [env EXCEPT !.commands = @ + 1]
    /\ requester' = [requester EXCEPT ![h] =
           [pc |-> IF ~PlayerAlive THEN "failed"
                   ELSE IF Room THEN "waiting" ELSE "sending",
            cmd |-> cmd]]
    /\ player_rx' = IF PlayerAlive /\ Room THEN Append(player_rx, cmd) ELSE player_rx
    /\ UNCHANGED <<workers, sysev, server, sink, bufVars, playerVars, handlerVars>>

SysSendResume(h) ==
    /\ h \in DOMAIN requester
    /\ requester[h].pc = "sending"
    /\ ~PlayerAlive \/ Room
    /\ requester' = [requester EXCEPT ![h].pc = IF PlayerAlive THEN "waiting" ELSE "failed"]
    /\ player_rx' = IF PlayerAlive THEN Append(player_rx, requester[h].cmd) ELSE player_rx
    /\ UNCHANGED <<workers, env, sysev, server, sink, bufVars, playerVars, handlerVars>>

(* rx.await? when the one-shot sender was dropped without a reply. *)
SysReplyLost(h) ==
    /\ h \in DOMAIN requester
    /\ requester[h].pc = "waiting"
    /\ ~PlayerAlive
    /\ requester' = [requester EXCEPT ![h].pc = "failed"]
    /\ UNCHANGED <<player_rx, workers, env, sysev, server, sink, bufVars, playerVars, handlerVars>>

(* One turn of the loop of Player::run: take a command, run its arm, and
   reply if the arm gets that far. *)
SysPlayerStep ==
    /\ player.state = "running"
    /\ Len(player_rx) > 0
    /\ LET t == TakeCommand(player_rx)
           c == t.cmd
           e == Arm(player, control_chan, c)
           spawned == c.kind = "Setup" /\ c.ok
           replied == c.kind # "PutPacket" /\ e.player.state = "running"
       IN  /\ player' = e.player
           /\ control_chan' = e.chan
           /\ pev' = e.pev
           /\ player_rx' = t.rest
           /\ requester' = IF replied
                           THEN [requester EXCEPT ![ReplyTo(c)].pc = "replied"]
                           ELSE requester
           /\ workers' = IF spawned
                         THEN Spawn(workers, env.setups + 1, control_chan.open)
                         ELSE workers
           /\ env' = IF spawned THEN [env EXCEPT !.setups = @ + 1] ELSE env
           /\ sink' = IF c.kind = "Record" THEN SinkAppend(sink) ELSE sink
           /\ sysev' = [kind |-> "step", cmd |-> c,
                        replied |-> IF replied THEN ReplyTo(c) ELSE "none"]
    /\ UNCHANGED <<server, bufVars, handlerVars>>

(* A receive worker got a datagram and sends PutPacket: Err when the
   Player is gone, a wait while the command channel is full. *)
WorkerDatagram(i) ==
    /\ i \in DOMAIN workers
    /\ i[2] \in Receivers
    /\ workers[i] = "running"
    /\ env.datagrams < MaxDatagrams
    /\ env' = [env EXCEPT !.datagrams = @ + 1]
    /\ workers' = IF ~PlayerAlive THEN Without(workers, i)
                  ELSE IF Room THEN workers
                  ELSE [workers EXCEPT ![i] = "sending"]
    /\ player_rx' = IF PlayerAlive /\ Room
                    THEN Append(player_rx, Cmd("PutPacket", i[2], PlayerWindowStart, "none", TRUE))
                    ELSE player_rx
    /\ UNCHANGED <<requester, sysev, server, sink, bufVars, playerVars, handlerVars>>

WorkerSendResume(i) ==
    /\ i \in DOMAIN workers
    /\ workers[i] = "sending"
    /\ ~PlayerAlive \/ Room
    /\ workers' = IF PlayerAlive THEN [workers EXCEPT ![i] = "running"]
                  ELSE Without(workers, i)
    /\ player_rx' = IF PlayerAlive
                    THEN Append(player_rx, Cmd("PutPacket", i[2], PlayerWindowStart, "none", TRUE))
                    ELSE player_rx
    /\ UNCHANGED <<requester, env, sysev, server, sink, bufVars, playerVars, handlerVars>>

(* recv_from returned a zero-length datagram or an error: the worker
   returns. *)
WorkerSocketEnd(i) ==
    /\ i \in DOMAIN workers
    /\ i[2] \in Receivers \cup {"timing_receiver"}
    /\ workers[i] = "running"
    /\ env.datagrams < MaxDatagrams
    /\ env' = [env EXCEPT !.datagrams = @ + 1]
    /\ workers' = Without(workers, i)
    /\ UNCHANGED <<player_rx, requester, sysev, server, sink, bufVars, playerVars, handlerVars>>

(* The shutdown branch of a worker's select: its session bus is gone. *)
WorkerStop(i) ==
    /\ i \in DOMAIN workers
    /\ workers[i] = "running"
    /\ ~BusAlive(i[1])
    /\ workers' = Without(workers, i)
    /\ UNCHANGED <<player_rx, requester, env, sysev, server, sink, bufVars, playerVars, handlerVars>>

SessionNext ==
    \/ \E h \in Handlers : \E cmd \in SessionCommands(h) : SysSend(h, cmd)
    \/ \E h \in Handlers : SysSendResume(h)
    \/ \E h \in Handlers : SysReplyLost(h)
    \/ SysPlayerStep
    \/ PlayerShutdown
    \/ ControlSenderStop
    \/ \E i \in Instances : WorkerDatagram(i)
    \/ \E i \in Instances : WorkerSendResume(i)
    \/ \E i \in Instances : WorkerSocketEnd(i)
    \/ \E i \in Instances : WorkerStop(i)

SpecSession == SessionInit /\ [][SessionNext]_vars

(* The runtime polls every task that can make a step: the Player's loop, a
   worker whose shutdown branch is ready, a send that has room. *)
SessionFairness ==
    /\ WF_vars(SysPlayerStep)
    /\ WF_vars(ControlSenderStop)
    /\ \A i \in Instances : WF_vars(WorkerStop(i))
    /\ \A i \in Instances : WF_vars(WorkerSendResume(i))

SpecSessionFair == SessionInit /\ [][SessionNext]_vars /\ SessionFairness

(* Two connections share the Player, and the command channel holds more
   than one command. *)
ActorCap == 2

ActorInit == SystemInit(Handlers, ActorCap)

SpecActor == ActorInit /\ [][SessionNext]_vars

(* ---- server::run, the Listener and the tasks under them ---- *)

MaxHandlers == 2
MaxServerRequests == 2
MaxBackoff == 16

HandlerIds == 1..MaxHandlers
ServerRequests == {"Options", "Setup", "Teardown"}

(* Err(err) of listener.accept() in Listener::accept: give up or sleep. *)
accept_gives_up_at_max(backoff) == backoff >= MaxBackoff

accept_gives_up(backoff) == backoff > MaxBackoff

(* What server::run does once its select has completed: the Listener is
   taken apart, mdns, notify_shutdown and shutdown_complete_tx are dropped,
   and it waits for the completion channel. *)
SupervisorKeepsBus(s) ==
    [s EXCEPT !.pc = "await_complete", !.mdns = "dropped", !.listener = "dropped"]

SupervisorDrops(s) ==
    [s EXCEPT !.pc = "await_complete", !.notify_shutdown = FALSE,
              !.mdns = "dropped", !.listener = "dropped"]

(* How many clones of shutdown_complete_tx there are: the Listener's and
   the Mdns struct's until server::run drops them, one in every Handler and
   one in the Player until they return. *)
CompletionHolders(s) ==
    (IF s.pc = "select" THEN 2 ELSE 0)
    + Cardinality({h \in 1..Len(s.handlers) : s.handlers[h].pc # "done"})
    + (IF s.player = "running" THEN 1 ELSE 0)

HandlerAt(pc, cmd) == [pc |-> pc, cmd |-> cmd]

ServerInit == BufIdle /\ PlayerIdle /\ HandlerIdle /\ SystemIdle

(* listener.accept() returned a socket: Listener::accept returns it and
   Listener::run spawns a Handler and accepts again; Connection::new fails
   when the socket has no addresses any more, and run returns the error. *)
AcceptOk(addr_ok) ==
    /\ server.pc = "select"
    /\ server.accept.pc = "accepting"
    /\ Len(server.handlers) < MaxHandlers
    /\ server' = [server EXCEPT
           !.last = [result |-> "socket", failed |-> server.accept.failed],
           !.accept = IF addr_ok THEN NoAccept ELSE [NoAccept EXCEPT !.pc = "idle"],
           !.listener = IF addr_ok THEN @ ELSE "returned_err",
           !.handlers = IF addr_ok THEN Append(@, HandlerAt("reading", "none")) ELSE @]
    /\ UNCHANGED notServer

(* listener.accept() returned an error. *)
AcceptFail ==
    /\ server.pc = "select"
    /\ server.accept.pc = "accepting"
    /\ LET failed == server.accept.failed + 1
       IN  server' = IF accept_gives_up(server.accept.backoff)
                     THEN [server EXCEPT
                              !.listener = "returned_err",
                              !.accept = [@ EXCEPT !.pc = "returned_err", !.failed = failed],
                              !.last = [result |-> "err", failed |-> failed]]
                     ELSE [server EXCEPT
                              !.accept = [@ EXCEPT !.pc = "sleeping", !.failed = failed]]
    /\ UNCHANGED notServer

(* time::sleep(backoff) is over: backoff is doubled and accept is tried
   again. *)
AcceptSleep ==
    /\ server.pc = "select"
    /\ server.accept.pc = "sleeping"
    /\ server' = [server EXCEPT
           !.accept = [@ EXCEPT !.pc = "accepting",
                                !.waits = Append(@, server.accept.backoff),
                                !.backoff = 2 * @]]
    /\ UNCHANGED notServer

(* Mdns::run returns Err: the responder could not be made. *)
MdnsError ==
    /\ server.pc = "select"
    /\ server.mdns = "running"
    /\ server' = [server EXCEPT !.mdns = "failed"]
    /\ UNCHANGED notServer

(* The shutdown future given to server::run becomes ready. *)
SignalFires ==
    /\ server.pc = "select"
    /\ ~server.signal
    /\ server' = [server EXCEPT !.signal = TRUE]
    /\ UNCHANGED notServer

(* The select of server::run completes on one of its branches, and run
   goes on to wait for the completion channel. *)
SupervisorSelect ==
    /\ server.pc = "select"
    /\ \/ server.signal
       \/ server.listener = "returned_err"
       \/ server.mdns = "failed"
    /\ server' = SupervisorDrops(server)
    /\ UNCHANGED notServer

(* shutdown_complete_rx.recv() returns None: no sender is left. *)
SupervisorReturn ==
    /\ server.pc = "await_complete"
    /\ CompletionHolders(server) = 0
    /\ server' = [server EXCEPT !.pc = "returned"]
    /\ UNCHANGED notServer

(* A handler reads a request and executes it: OPTIONS is answered by the
   handler alone, SETUP and TEARDOWN send a command to the Player and wait
   for the reply; the send fails when the Player is gone. *)
ServerRequest(h, method) ==
    /\ h \in 1..Len(server.handlers)
    /\ server.handlers[h].pc = "reading"
    /\ server.requests < MaxServerRequests
    /\ server' = [server EXCEPT
           !.requests = @ + 1,
           !.handlers[h] = IF method = "Options" THEN @
                           ELSE IF server.player = "running"
                           THEN HandlerAt("waiting", method)
                           ELSE HandlerAt("done", "none")]
    /\ UNCHANGED notServer

(* The shutdown branch of the select in Handler::run. *)
ServerHandlerStop(h) ==
    /\ h \in 1..Len(server.handlers)
    /\ server.handlers[h].pc = "reading"
    /\ ~server.notify_shutdown
    /\ server' = [server EXCEPT !.handlers[h] = HandlerAt("done", "none")]
    /\ UNCHANGED notServer

(* read_message returned None or an error: the handler returns. *)
ServerHandlerEnd(h) ==
    /\ h \in 1..Len(server.handlers)
    /\ server.handlers[h].pc = "reading"
    /\ server' = [server EXCEPT !.handlers[h] = HandlerAt("done", "none")]
    /\ UNCHANGED notServer

(* rx.await? when the Player went away with the command. *)
ServerReplyLost(h) ==
    /\ h \in 1..Len(server.handlers)
    /\ server.handlers[h].pc = "waiting"
    /\ server.player # "running"
    /\ server' = [server EXCEPT !.handlers[h] = HandlerAt("done", "none")]
    /\ UNCHANGED notServer

(* The Player takes the command of a handler: Setup makes the session bus
   and spawns the five workers or fails on a socket, Teardown drops the
   bus; the handler gets its reply and writes the response. *)
ServerPlayerStep(h, sockets_ok) ==
    /\ h \in 1..Len(server.handlers)
    /\ server.handlers[h].pc = "waiting"
    /\ server.player = "running"
    /\ LET cmd == server.handlers[h].cmd
           locals == [NoPlayer EXCEPT !.notify_shutdown = server.bus]
           after == IF cmd = "Setup" THEN Setup(locals, sockets_ok)
                                     ELSE Teardown(locals)
           spawned == cmd = "Setup" /\ after.state = "running"
       IN  server' =
             [server EXCEPT
                !.player = after.state,
                !.bus = after.notify_shutdown,
                !.media = IF spawned THEN WorkerNames ELSE @,
                !.returned = IF spawned THEN {} ELSE @,
                !.handlers[h] = IF after.state = "running"
                                THEN HandlerAt("reading", "none") ELSE @]
    /\ UNCHANGED notServer

(* The shutdown branch of the select in Player::run: its locals, the
   session bus among them, are dropped. *)
ServerPlayerStop ==
    /\ server.player = "running"
    /\ ~server.notify_shutdown
    /\ server' = [server EXCEPT !.player = "returned", !.bus = FALSE]
    /\ UNCHANGED notServer

(* The shutdown branch of the select of a media worker. *)
MediaStopWithoutSignal(w) ==
    /\ w \in server.media
    /\ server' = [server EXCEPT !.media = @ \ {w}, !.returned = @ \cup {w}]
    /\ UNCHANGED notServer

MediaStop(w) ==
    /\ w \in server.media
    /\ ~server.bus
    /\ server' = [server EXCEPT !.media = @ \ {w}, !.returned = @ \cup {w}]
    /\ UNCHANGED notServer

ServerNext ==
    \/ \E addr_ok \in BOOLEAN : AcceptOk(addr_ok)
    \/ AcceptFail
    \/ AcceptSleep
    \/ MdnsError
    \/ SignalFires
    \/ SupervisorSelect
    \/ SupervisorReturn
    \/ \E h \in HandlerIds, method \in ServerRequests : ServerRequest(h, method)
    \/ \E h \in HandlerIds : ServerHandlerStop(h)
    \/ \E h \in HandlerIds : ServerHandlerEnd(h)
    \/ \E h \in HandlerIds : ServerReplyLost(h)
    \/ \E h \in HandlerIds, sockets_ok \in BOOLEAN : ServerPlayerStep(h, sockets_ok)
    \/ ServerPlayerStop
    \/ \E w \in WorkerNames : MediaStop(w)

SpecServer == ServerInit /\ [][ServerNext]_vars

(* The runtime polls every task that can make a step. *)
ServerFairness ==
    /\ WF_vars(SupervisorSelect)
    /\ WF_vars(AcceptSleep)
    /\ WF_vars(SupervisorReturn)
    /\ WF_vars(ServerPlayerStop)
    /\ \A h \in HandlerIds : WF_vars(ServerHandlerStop(h))
    /\ \A h \in HandlerIds : WF_vars(ServerReplyLost(h))
    /\ \A h \in HandlerIds : WF_vars(\E sockets_ok \in BOOLEAN : ServerPlayerStep(h, sockets_ok))

SpecServerFair == ServerInit /\ [][ServerNext]_vars /\ ServerFairness

(* C11: once the response to a TEARDOWN is written the handler is done with
   the connection: it reads no further request. *)
C11_NoReadAfterTeardown ==
    [][(/\ handler.request.method = "TEARDOWN"
        /\ handler.command = Some("Teardown")
        /\ response # None
        /\ "Connection" \in response[1].headers)
       => handler'.read = handler.read]_vars

(* C12: once the Player has processed a Teardown, every one of the five
   workers that the Setup before it launched returns in the end. *)
C12_WorkersReturnAfterTeardown ==
    \A g \in Sessions :
        (sysev.cmd.kind = "Teardown" /\ env.setups = g)
            ~> (\A w \in WorkerNames : ~Alive(g, w))

(* A session was set up and torn down, no socket ended a worker, the Player
   is still there, and all five workers are gone. *)
C12_Witness ==
    /\ sysev.cmd.kind = "Teardown"
    /\ env.setups = 1
    /\ env.datagrams = 0
    /\ PlayerAlive
    /\ \A w \in WorkerNames : ~Alive(1, w)

(* C13: after the Player processed Teardown nothing of the session is left:
   no key, no cipher, no decoder, no reorder buffer and no sender to the
   control-send worker. *)
C13_TeardownEmpties ==
    pev.kind = "teardown" =>
        /\ player.encryption = None
        /\ ~player.cipher
        /\ ~player.alac
        /\ player.frame_buffer = None
        /\ ~player.control_tx

(* C14: a PutPacket that cannot be processed (no key or cipher, no decoder,
   or a payload that does not decode) is dropped and the Player goes on. *)
C14_BadPacketDropped ==
    (pev.kind = "put" /\ pev.range = None) => player.state = "running"

(* C15: once the external shutdown signal has fired, server::run returns
   in the end. *)
C15_RunReturnsAfterSignal == server.signal ~> server.pc = "returned"

(* The signal fired with a connection open and the Player running, and
   server::run has returned after both had stopped. *)
C15_Witness ==
    /\ server.signal
    /\ server.pc = "returned"
    /\ server.listener = "dropped"
    /\ server.accept.pc # "returned_err"
    /\ Len(server.handlers) > 0
    /\ server.player = "returned"

(* C16: when server::run has come back from waiting for the completion
   channel, every handler, the Player and every media worker has
   returned. *)
C16_AllFinishedAtReturn ==
    server.pc = "returned" =>
        /\ \A h \in 1..Len(server.handlers) : server.handlers[h].pc = "done"
        /\ server.player # "running"
        /\ server.media = {}

(* What a handler has in the command channel: it waits for the reply to a
   command before it sends the next. *)
OneCommandPerHandler ==
    \A h \in DOMAIN requester :
        Cardinality({k \in 1..Len(player_rx) : player_rx[k].from = h}) <= 1

(* A command joins the channel at its end; the Player takes the oldest one,
   and the only reply of that step goes to the handler that sent it and was
   waiting for it. *)
TakenInOrder ==
    /\ Len(player_rx') > Len(player_rx) =>
           SubSeq(player_rx', 1, Len(player_rx)) = player_rx
    /\ Len(player_rx') < Len(player_rx) =>
           /\ player_rx' = Tail(player_rx)
           /\ sysev'.cmd = Head(player_rx)
           /\ \A h \in DOMAIN requester :
                  requester'[h] # requester[h] =>
                      /\ h = Head(player_rx).from
                      /\ requester[h].pc = "waiting"
                      /\ requester[h].cmd = Head(player_rx)
                      /\ requester'[h].pc = "replied"

(* C17: the Player takes the commands in the order they were enqueued, one
   per turn of its loop; a handler has at most one command under way, and
   each reply goes to the handler that sent the command. *)
C17_CommandsInOrder == []OneCommandPerHandler /\ [][TakenInOrder]_vars

(* The Player has answered h2 while a command of h1 waits behind it. *)
C17_Witness ==
    /\ sysev.replied = "h2"
    /\ requester["h2"].pc = "replied"
    /\ Len(player_rx) > 0
    /\ player_rx[1].from = "h1"
    /\ requester["h1"].pc = "waiting"

(* Frames of a later session are in the Player's buffer while the sources
   of earlier sessions are still in the queue of the sink. *)
NewSessionFrames ==
    /\ player.state = "running"
    /\ sink.queued
    /\ player.frame_buffer # None
    /\ DOMAIN player.frame_buffer[1].data # {}

(* C19: frames added to the buffer of a session that follows a Teardown are
   pulled by the sink in the end, unless the Player stops or the frames are
   flushed or replaced first. *)
C19_NewSessionFramesPulled ==
    NewSessionFrames ~> (sink.pulled = "later" \/ ~NewSessionFrames)

(* C18: a request that fails with a parse or protocol error of the handler
   (bad SDP, bad parameter body, undecodable Apple-Challenge) is answered
   with an error response, and the handler goes on reading. *)
C18_ParseErrorAnswered ==
    (/\ handler.request.kind = "request"
     /\ handler.pc # "executing"
     /\ execute(handler.request, "ok").result = "err"
     /\ execute(handler.request, "ok").command = None)
    => /\ handler.pc \in {"reading", "returned"}
       /\ response # None
       /\ response[1].status >= 400

(* The waits of one call of Listener::accept, in seconds. *)
BackoffWaits == [k \in 1..5 |-> 2 ^ (k - 1)]

IsPrefix(p, q) == Len(p) <= Len(q) /\ p = SubSeq(q, 1, Len(p))

(* C20 as stated: accept gives up once five attempts in a row have
   failed. *)
C20_GivesUpAfterFive ==
    /\ IsPrefix(server.accept.waits, BackoffWaits)
    /\ server.accept.failed >= 5 => server.accept.pc = "returned_err"

(* C20: the waits of accept are 1, 2, 4, 8, 16 s, one after each of the
   first five failed attempts; it returns the error exactly when the sixth
   attempt in a row fails, and a socket after at most five failures. *)
C20_GivesUpAtSixth ==
    /\ IsPrefix(server.accept.waits, BackoffWaits)
    /\ server.accept.pc = "accepting" => Len(server.accept.waits) = server.accept.failed
    /\ server.accept.pc = "sleeping" => Len(server.accept.waits) = server.accept.failed - 1
    /\ server.accept.pc = "returned_err" <=> server.accept.failed = 6
    /\ server.last.result = "err" => server.last.failed = 6
    /\ server.last.result = "socket" => server.last.failed <= 5

(* accept has slept 1, 2, 4, 8 and 16 s and returned the error. *)
C20_Witness ==
    /\ server.accept.pc = "returned_err"
    /\ server.accept.waits = BackoffWaits
    /\ server.last = [result |-> "err", failed |-> 6]


(* ------------------------------------------------------------------ *)
(* One connection and the Player together: a request is read, execute  *)
(* sends its command, the Player runs the arm and answers (or is gone), *)
(* and the response is written.                                         *)
(* ------------------------------------------------------------------ *)

RtspVolumes == {-125000000, -14, 0, 26}

(* format!("volume: {:.6}", v): v rounded to six decimals, as a whole
   number of 10^-6. *)
Format6(v) == (v \div 10) + (IF v % 10 >= 5 THEN 1 ELSE 0)

(* The body of the GET_PARAMETER response: one line for every line
   "volume" of the request's body. *)
parameters_body(request, parameters) ==
    IF request.variant = "good" THEN Some(Format6(parameters.volume)) ELSE None

(* A request with what its body and the environment hold for the Player:
   the encryption and fmtp of the SDP, whether sockets can be bound, the
   number after "volume:". *)
RtspInput(method, variant, enc, ok, volume) ==
    [message |-> [kind |-> "request", method |-> method, cseq |-> Some(1),
                  challenge |-> "none", variant |-> variant],
     enc |-> enc, ok |-> ok, volume |-> volume]

NoInput == RtspInput("none", "good", "none", FALSE, 0)

RtspInputs ==
    {RtspInput(m, "good", "none", TRUE, 0) :
        m \in {"OPTIONS", "GET_PARAMETER", "RECORD", "TEARDOWN"}}
    \cup {RtspInput("SETUP", v, "none", ok, 0) :
            v \in {"good", "bad_header"}, ok \in BOOLEAN}
    \cup {RtspInput("ANNOUNCE", v, enc, ok, 0) :
            v \in {"good", "bad_body"}, enc \in {"none", "ok", "short_key"},
            ok \in BOOLEAN}
    \cup {RtspInput("SET_PARAMETER", v, "none", TRUE, vol) :
            v \in {"good", "bad_header", "bad_body"}, vol \in RtspVolumes}

(* The Command execute builds from the request, if it sends one. *)
RtspCommand(input) ==
    LET kind == execute(input.message, "ok").command
    IN  IF kind = None THEN None
        ELSE Some([kind |-> kind[1], from |-> "h1", seq |-> PlayerWindowStart,
                   enc |-> input.enc, ok |-> input.ok, volume |-> input.volume])

NoExchange ==
    [kind |-> "none", cmd |-> NoCommand, replied |-> "none", input |-> NoInput,
     socket_ok |-> TRUE]

RtspInit ==
    /\ BufIdle /\ PlayerIdle /\ HandlerIdle
    /\ player_rx = <<>>
    /\ workers = [i \in {} |-> "none"]
    /\ requester = [h \in {} |-> "none"]
    /\ env = [commands |-> 0, datagrams |-> 0, setups |-> 0, cap |-> 0]
    /\ sysev = NoExchange
    /\ sink = NoSink
    /\ server = NoServer

(* Handler::run from read_message to write_response for one request.  The
   command is taken by the Player if it still runs; the reply reaches the
   handler unless the Player went away in the arm. *)
RtspExchange(input, write_ok) ==
    /\ handler.pc = "reading"
    /\ handler.read < MaxRequests
    /\ LET message == input.message
           c == RtspCommand(input)
           taken == c # None /\ player.state = "running"
           e == IF taken THEN Arm(player, control_chan, c[1])
                ELSE [player |-> player, chan |-> control_chan, pev |-> pev]
           reply == IF taken /\ e.player.state = "running" THEN "ok" ELSE "closed"
           x == execute(message, reply)
           written == x.result = "ok" /\ x.response # None /\ write_ok
           body == IF message.method = "GET_PARAMETER"
                   THEN parameters_body(message, GetParameter(e.player))
                   ELSE None
       IN  /\ handler' = [pc |-> IF x.result = "panic" THEN "panicked"
                                 ELSE IF x.result = "err" THEN "failed"
                                 ELSE IF x.response # None /\ ~write_ok THEN "failed"
                                 ELSE "reading",
                          read |-> handler.read + 1,
                          request |-> message,
                          command |-> x.command]
           /\ conn' = IF written
                      THEN write_response(conn, handler.read + 1, handler.read + 1)
                      ELSE conn
           /\ response' = IF written
                          THEN Some([x.response[1] EXCEPT !.body = body])
                          ELSE None
           /\ player' = e.player
           /\ control_chan' = e.chan
           /\ pev' = e.pev
           /\ sink' = IF taken /\ c[1].kind = "Record" THEN SinkAppend(sink) ELSE sink
           /\ sysev' = [kind |-> "exchange",
                        cmd |-> IF taken THEN c[1] ELSE NoCommand,
                        replied |-> IF taken /\ reply = "ok" THEN "h1" ELSE "none",
                        input |-> input,
                        socket_ok |-> write_ok]
    /\ UNCHANGED <<client, bufVars, player_rx, workers, requester, env, server>>

RtspNext == \E input \in RtspInputs, write_ok \in BOOLEAN : RtspExchange(input, write_ok)

SpecRtsp == RtspInit /\ [][RtspNext]_vars

(* C21: a response carries Apple-Response exactly when the request it
   answers carried Apple-Challenge. *)
C21_AppleResponseIffChallenge ==
    response # None =>
        ("Apple-Response" \in response[1].headers
            <=> handler.request.challenge # "none")

(* C23: add_packet never moves write_marker backwards: after an add it is
   the later, in the wrap-aware order, of the old write_marker and the
   packet's sequence number. *)
C23_WriteMarkerHighest ==
    [][call'.op = "add" =>
          /\ ~SeqLt(frame_buffer'.write_marker, frame_buffer.write_marker)
          /\ frame_buffer'.write_marker =
                 IF SeqLt(frame_buffer.write_marker, call'.seq)
                 THEN call'.seq ELSE frame_buffer.write_marker]_vars

(* C26: after an Announce the Player holds a cipher exactly when that
   Announce carried encryption parameters: nothing of an earlier Announce
   is left. *)
C26_LatestAnnounceOnly ==
    (pev.kind = "announce" /\ player.state = "running") =>
        (player.cipher <=> player.encryption # None)

(* C27: once the process-wide stop signal is available (the supervisor has
   dropped the sender of the bus), no handler reads a further request: a
   worker whose select finds the signal ready takes the shutdown branch. *)
C27_NoInputAfterSignal ==
    [][~server.notify_shutdown => server'.requests = server.requests]_vars

(* C28: when the Player task has failed, the supervisor's select completes
   and the entry point returns. *)
C28_PlayerFailureStopsServer ==
    (server.player = "failed") ~> (server.pc = "returned")

(* C29: the Player goes on after a media worker is gone: a PutPacket that
   reveals a gap when the control-send worker has terminated is processed
   and leaves the Player running. *)
C29_PlayerSurvivesLostWorker ==
    [][(/\ player.state = "running"
        /\ ~control_chan.open
        /\ pev'.kind = "put"
        /\ pev'.range # None
        /\ ~RangeIsEmpty(pev'.range[1]))
          => player'.state = "running"]_vars

\* the Player takes the Teardown of handler h in this step
TeardownStep(h) ==
    /\ h \in 1..Len(server.handlers)
    /\ server.player = "running"
    /\ server.handlers[h] = HandlerAt("waiting", "Teardown")
    /\ server'.handlers[h] # server.handlers[h]

(* C30: a Teardown drops the session bus and nothing else: the Player keeps
   running, the process-wide bus, the supervisor, the listener and its
   accept loop, mDNS and the handlers of the other connections are as
   before; the session's media workers are the only tasks the dropped bus
   lets return, and they return only when their bus is gone. *)
C30_TeardownStopsOnlySession ==
    [][/\ \A h \in HandlerIds :
            TeardownStep(h) =>
                /\ ~server'.bus
                /\ server'.player = "running"
                /\ server'.notify_shutdown = server.notify_shutdown
                /\ server'.pc = server.pc
                /\ server'.signal = server.signal
                /\ server'.listener = server.listener
                /\ server'.accept = server.accept
                /\ server'.mdns = server.mdns
                /\ server'.media = server.media
                /\ server'.handlers[h] = HandlerAt("reading", "none")
                /\ Len(server'.handlers) = Len(server.handlers)
                /\ \A g \in 1..Len(server.handlers) :
                       g # h => server'.handlers[g] = server.handlers[g]
       /\ server'.returned # server.returned /\ server'.returned # {}
            => ~server.bus /\ server'.media = server.media \ server'.returned
      ]_vars

\* after a Teardown all five workers of the session have returned, while the
\* Player runs, the process-wide bus is untouched, the listener accepts and
\* the handler of another connection reads
C30_Witness ==
    /\ server.returned = WorkerNames /\ server.media = {}
    /\ server.player = "running"
    /\ server.notify_shutdown /\ server.pc = "select"
    /\ server.listener = "running" /\ server.accept.pc = "accepting"
    /\ Len(server.handlers) = 2
    /\ \A h \in 1..2 : server.handlers[h].pc = "reading"

\* the step is an exchange in which the Player took a SetParameter
SetTaken == sysev'.kind = "exchange" /\ sysev'.cmd.kind = "SetParameter"

\* the step is a GET_PARAMETER with body "volume" whose response was written
GetAnswered ==
    /\ sysev'.kind = "exchange"
    /\ sysev'.input.message.method = "GET_PARAMETER"
    /\ response' # None

\* the last exchange was a SET_PARAMETER with Content-Type text/parameters
\* and body "volume: v" that the Player took
SetBefore ==
    /\ sysev.kind = "exchange"
    /\ sysev.input.message.method = "SET_PARAMETER"
    /\ sysev.input.message.variant = "good"
    /\ sysev.cmd.kind = "SetParameter"

(* C22 as stated: a SET_PARAMETER with body "volume: v" followed by a
   GET_PARAMETER with body "volume" reports v. *)
C22_GetReportsExactly ==
    [][(SetBefore /\ GetAnswered) =>
          /\ response'[1].body # None
          /\ response'[1].body[1] * 10 = sysev.input.volume]_vars

(* C22 amended: the Player's volume is 0.0 until a SetParameter is
   processed and afterwards that of the most recently processed
   SetParameter, whatever other commands come in between; GET_PARAMETER
   reports it rounded to six decimals, so a SET_PARAMETER (Content-Type
   text/parameters) with body "volume: v" followed by a GET_PARAMETER with
   body "volume" reports v rounded to six decimals. *)
C22_GetReportsRounded ==
    [][/\ sysev.kind = "none" => player.airplay_volume = 0
       /\ player'.airplay_volume =
              IF SetTaken THEN sysev'.input.volume ELSE player.airplay_volume
       /\ GetAnswered => response'[1].body = Some(Format6(player.airplay_volume))
       /\ (SetBefore /\ GetAnswered) =>
              response'[1].body = Some(Format6(sysev.input.volume))]_vars

\* a GET_PARAMETER answered with a volume that was set, other commands have
\* come in between, and the six decimals are not all of it
C22_Witness ==
    /\ sysev.kind = "exchange"
    /\ sysev.input.message.method = "GET_PARAMETER"
    /\ response # None
    /\ response[1].body = Some(Format6(player.airplay_volume))
    /\ player.airplay_volume # 0
    /\ response[1].body[1] * 10 # player.airplay_volume
    /\ handler.read = MaxRequests

(* C24: a SETUP whose Setup command fails in the Player (a socket cannot be
   bound or connected) is answered 451, and the Player keeps running. *)
C24_SetupFailureAnswered ==
    (/\ sysev.kind = "exchange"
     /\ sysev.cmd.kind = "Setup" /\ ~sysev.cmd.ok
     /\ sysev.socket_ok)
        => /\ response # None /\ response[1].status = 451
           /\ player.state = "running"

(* C25: an ANNOUNCE is answered 200 when the Player installed the session
   (the fmtp yields a decoder and the AES key, if there is one, has 16
   bytes) and 453 when it could not. *)
C25_AnnounceStatus ==
    (/\ sysev.kind = "exchange"
     /\ sysev.cmd.kind = "Announce"
     /\ sysev.socket_ok)
        => /\ response # None
           /\ response[1].status =
                 IF sysev.cmd.ok /\ sysev.cmd.enc # "short_key" THEN 200 ELSE 453

(* ------------------------------------------------------------------ *)
(* Connection::read_message over the bytes of a peer.  A byte is part   *)
(* of a message ("h"), the last byte of a message ("e") or one no       *)
(* message can hold ("x").  Every await of read_message is a step.      *)
(* ------------------------------------------------------------------ *)

MaxBytes == 4
Bytes == {"h", "e", "x"}

(* Message::parse on the buffered bytes: the message and the number of
   bytes it takes, Incomplete when the message has not ended yet, or an
   error. *)
FirstEnd(buffer) ==
    LET ends == {i \in 1..Len(buffer) : buffer[i] # "h"}
    IN  IF ends = {} THEN 0 ELSE CHOOSE i \in ends : \A j \in ends : i <= j

MessageParse(buffer) ==
    LET i == FirstEnd(buffer)
    IN  IF i = 0 THEN [result |-> "incomplete", message |-> <<>>, consumed |-> 0]
        ELSE IF buffer[i] = "x"
        THEN [result |-> "error", message |-> <<>>, consumed |-> 0]
        ELSE [result |-> "ok", message |-> SubSeq(buffer, 1, i), consumed |-> i]

(* self.buffer.advance(consumed) *)
advance_all(buffer, consumed) == <<>>

advance(buffer, consumed) == SubSeq(buffer, consumed + 1, Len(buffer))

(* Connection::parse_message: the buffer afterwards and what it returns. *)
parse_message(buffer) ==
    LET r == MessageParse(buffer)
    IN  IF r.result = "ok"
        THEN [buffer |-> advance(buffer, r.consumed), ret |-> "message",
              message |-> r.message]
        ELSE IF r.result = "incomplete"
        THEN [buffer |-> buffer, ret |-> "none", message |-> <<>>]
        ELSE [buffer |-> buffer, ret |-> "err", message |-> <<>>]

(* The reader: pc is where read_message stands ("parse" at the top of its
   loop, "read" in read_buf, "closed" and "failed" once it has returned
   None or Err), ret is what the last return was, reads counts the
   read_buf calls of the current call and last_reads those of the call
   that returned last, messages are the messages returned so far, stream
   is all the peer has sent. *)
NoReader ==
    [kind |-> "read_message", pc |-> "parse", ret |-> "none", reads |-> 0,
     last_reads |-> 0, messages |-> <<>>, stream |-> <<>>]

ConnInit ==
    /\ BufIdle /\ PlayerIdle /\ HandlerIdle
    /\ player_rx = <<>>
    /\ workers = [i \in {} |-> "none"]
    /\ requester = [h \in {} |-> "none"]
    /\ env = [commands |-> 0, datagrams |-> 0, setups |-> 0, cap |-> 0]
    /\ sysev = NoReader
    /\ sink = NoSink
    /\ server = NoServer

notConn == <<handler, response, bufVars, playerVars, player_rx, workers,
             requester, env, server, sink>>

PeerSend(b) ==
    /\ ~client.closed
    /\ client.sent < MaxBytes
    /\ client' = [client EXCEPT !.sent = @ + 1]
    /\ conn' = [conn EXCEPT !.arrived = Append(@, b)]
    /\ sysev' = [sysev EXCEPT !.stream = Append(@, b)]
    /\ UNCHANGED notConn

PeerClose ==
    /\ ~client.closed
    /\ client' = [client EXCEPT !.closed = TRUE]
    /\ UNCHANGED <<conn, sysev, notConn>>

(* The top of the loop: parse_message()?; a message is returned, and the
   next call of read_message starts at the top again. *)
ConnParse ==
    /\ sysev.pc = "parse"
    /\ LET r == parse_message(conn.buffer)
       IN  /\ conn' = [conn EXCEPT !.buffer = r.buffer]
           /\ sysev' = [sysev EXCEPT
                  !.pc = CASE r.ret = "message" -> "parse"
                           [] r.ret = "none" -> "read"
                           [] OTHER -> "failed",
                  !.ret = r.ret,
                  !.reads = IF r.ret = "message" THEN 0 ELSE @,
                  !.last_reads = IF r.ret = "message" THEN sysev.reads ELSE @,
                  !.messages = IF r.ret = "message" THEN Append(@, r.message) ELSE @]
    /\ UNCHANGED <<client, notConn>>

(* read_buf returned n > 0 bytes. *)
ConnReadBuf(n) ==
    /\ sysev.pc = "read"
    /\ n \in 1..Len(conn.arrived)
    /\ conn' = [conn EXCEPT !.buffer = @ \o SubSeq(conn.arrived, 1, n),
                            !.arrived = SubSeq(@, n + 1, Len(@))]
    /\ sysev' = [sysev EXCEPT !.pc = "parse", !.reads = @ + 1]
    /\ UNCHANGED <<client, notConn>>

(* read_buf returned 0: end of stream. *)
ConnReadEof ==
    /\ sysev.pc = "read"
    /\ conn.arrived = <<>>
    /\ client.closed
    /\ sysev' = [sysev EXCEPT
           !.pc = IF conn.buffer = <<>> THEN "closed" ELSE "failed",
           !.ret = IF conn.buffer = <<>> THEN "closed" ELSE "reset",
           !.reads = @ + 1]
    /\ UNCHANGED <<client, conn, notConn>>

ConnNext ==
    \/ \E b \in Bytes : PeerSend(b)
    \/ PeerClose
    \/ ConnParse
    \/ \E n \in 1..MaxBytes : ConnReadBuf(n)
    \/ ConnReadEof

SpecConnection == ConnInit /\ [][ConnNext]_vars

RECURSIVE Concat(_)
Concat(ms) == IF ms = <<>> THEN <<>> ELSE Head(ms) \o Concat(Tail(ms))

(* C31: read_message returns None exactly at end of stream with an empty
   read buffer and "connection reset by peer" at end of stream with bytes
   left; an incomplete message leads to another read, not to an error; the
   bytes behind a returned message stay in the buffer, so that the
   messages returned, the buffer and what has arrived and is not read yet
   are together what the peer sent. *)
C31_ReadMessage ==
    [][/\ sysev'.ret = "closed" =>
              conn.buffer = <<>> /\ conn.arrived = <<>> /\ client.closed
       /\ (sysev.pc = "read" /\ conn.arrived = <<>> /\ client.closed
              /\ sysev' # sysev)
            => sysev'.ret = IF conn.buffer = <<>> THEN "closed" ELSE "reset"
       /\ sysev'.ret = "reset" => conn.buffer # <<>> /\ sysev.pc = "read"
       /\ (sysev.pc = "parse" /\ MessageParse(conn.buffer).result = "incomplete"
              /\ sysev'.pc # "parse")
            => sysev'.pc = "read" /\ sysev'.ret = "none"
       /\ (sysev.pc = "parse" /\ Len(sysev'.messages) > Len(sysev.messages))
            => conn.buffer = sysev'.messages[Len(sysev'.messages)] \o conn'.buffer
       /\ sysev'.pc # "failed" =>
              sysev'.stream = Concat(sysev'.messages) \o conn'.buffer \o conn'.arrived
      ]_vars

\* a second message was returned from bytes that one read_buf had brought
\* in together with the end of the first
C31_Witness ==
    /\ Len(sysev.messages) = 2
    /\ sysev.last_reads = 0
    /\ sysev.stream = Concat(sysev.messages)
    /\ Len(sysev.messages[2]) >= 2

(* ------------------------------------------------------------------ *)
(* FrameBufferSource, the PCM source the sink pulls from, next to the   *)
(* Player's add_packet and flush on the shared buffer.  A frame is the  *)
(* sequence of its samples; the samples of the frames are not zero, so  *)
(* that silence can be told from them.                                  *)
(* ------------------------------------------------------------------ *)

MaxPulls == 4
SourceWindowStart == 65535
SourceWindowLen == 2
SourceSeqs == {(SourceWindowStart + i) % SeqMod : i \in 0..(SourceWindowLen - 1)}
SampleFrames == {<<>>, <<1>>, <<2, 3>>}

(* FrameBufferSource::next: the sample returned, the frame being consumed
   afterwards, the buffer afterwards and the frame popped, if pop_front was
   called and returned one. *)
next_skips_first(current, b) ==
    IF current # None /\ Len(current[1]) > 0
    THEN [val |-> Some(Head(current[1])), current |-> Some(Tail(current[1])),
          buf |-> b, popped |-> None]
    ELSE LET p == pop_front(b)
         IN  IF p.ret # None /\ Len(p.ret[1]) > 1
             THEN [val |-> Some(p.ret[1][2]), current |-> Some(Tail(Tail(p.ret[1]))),
                   buf |-> p.buf, popped |-> p.ret]
             ELSE [val |-> Some(0), current |-> None, buf |-> p.buf, popped |-> p.ret]

next(current, b) ==
    IF current # None /\ Len(current[1]) > 0
    THEN [val |-> Some(Head(current[1])), current |-> Some(Tail(current[1])),
          buf |-> b, popped |-> None]
    ELSE LET p == pop_front(b)
         IN  IF p.ret # None /\ Len(p.ret[1]) > 0
             THEN [val |-> Some(Head(p.ret[1])), current |-> Some(Tail(p.ret[1])),
                   buf |-> p.buf, popped |-> p.ret]
             ELSE [val |-> Some(0), current |-> None, buf |-> p.buf, popped |-> p.ret]

(* The source: current is the frame being consumed, out what the pulls
   returned, frames the frames pop_front handed over, in order. *)
NoSource == [current |-> None, out |-> <<>>, frames |-> <<>>]

SourceInit ==
    /\ frame_buffer = new(SourceWindowStart)
    /\ call = NoCall
    /\ in_order = TRUE
    /\ drain = NoSource
    /\ fresh = TRUE
    /\ PlayerIdle /\ HandlerIdle /\ SystemIdle

(* The PutPacket and Flush arms under the lock of the buffer. *)
SourceAdd(seq, frame) ==
    /\ frame_buffer' = add_packet(frame_buffer, seq, frame).buf
    /\ UNCHANGED <<call, in_order, drain, fresh, notBuffer>>

SourceFlush(seq) ==
    /\ frame_buffer' = flush(frame_buffer, seq)
    /\ UNCHANGED <<call, in_order, drain, fresh, notBuffer>>

(* One pull of the sink. *)
SourcePull ==
    /\ Len(drain.out) < MaxPulls
    /\ LET r == next(drain.current, frame_buffer)
       IN  /\ frame_buffer' = r.buf
           /\ drain' = [current |-> r.current,
                        out |-> Append(drain.out, r.val),
                        frames |-> IF r.popped # None
                                   THEN Append(drain.frames, r.popped[1])
                                   ELSE drain.frames]
    /\ UNCHANGED <<call, in_order, fresh, notBuffer>>

SourceNext ==
    \/ \E seq \in SourceSeqs, frame \in SampleFrames : SourceAdd(seq, frame)
    \/ \E seq \in SourceSeqs : SourceFlush(seq)
    \/ SourcePull

SpecSource == SourceInit /\ [][SourceNext]_vars

RECURSIVE NonZero(_)
NonZero(out) ==
    IF out = <<>> THEN <<>>
    ELSE IF Head(out) = Some(0) THEN NonZero(Tail(out))
    ELSE <<Head(out)[1]>> \o NonZero(Tail(out))

(* C32: every pull returns one sample, never the end of the stream: the
   next sample of the frame being consumed, else the first sample of the
   frame popped at read_marker, else zero; the samples returned that are
   not silence, followed by what is left of the frame being consumed, are
   the popped frames one after the other. *)
C32_SourceSamples ==
    [][Len(drain'.out) > Len(drain.out) =>
          LET val == drain'.out[Len(drain'.out)]
              left == IF drain.current = None THEN <<>> ELSE drain.current[1]
              at_marker == MapGet(frame_buffer.data, frame_buffer.read_marker)
          IN  /\ val # None
              /\ Len(drain'.out) = Len(drain.out) + 1
              /\ val = IF left # <<>> THEN Some(Head(left))
                       ELSE IF at_marker # None /\ at_marker[1] # <<>>
                       THEN Some(Head(at_marker[1]))
                       ELSE Some(0)
              /\ NonZero(drain'.out)
                   \o (IF drain'.current = None THEN <<>> ELSE drain'.current[1])
                 = Concat(drain'.frames)]_vars

\* two frames were popped and all their samples returned, with silence in
\* between
C32_Witness ==
    /\ Len(drain.frames) = 2
    /\ NonZero(drain.out) = Concat(drain.frames)
    /\ Len(NonZero(drain.out)) = 3
    /\ Len(drain.out) = 4

(* C33: a packet whose sequence number is the successor of the highest
   sequence number ever added is reported with an empty range of missing
   packets, whatever was added before it. *)
C33_InOrderReportsNothing ==
    [][(/\ call'.op = "add"
        /\ call.highest # None
        /\ call'.seq = SeqNext(call.highest[1]))
          => RangeIsEmpty(call'.range)]_vars

(* C34: the Player takes a PutPacket from its command channel only while
   the session bus of the worker that sent it is alive: after Teardown no
   PutPacket of the torn-down session is dequeued. *)
C34_NoPacketAfterTeardown ==
    [][(/\ Len(player_rx) > 0
        /\ Head(player_rx).kind = "PutPacket"
        /\ Len(player_rx') < Len(player_rx))
          => player.notify_shutdown]_vars

(* C35: when the handler is back at read_message after a request, one
   response to that request has been written: a handler that goes on
   reading has answered every request it read. *)
C35_RequestAnswered ==
    (handler.pc = "reading" /\ handler.read > 0) =>
        /\ response # None
        /\ Len(conn.wire) + Len(conn.stream_buf) = handler.read

(* C36: the handler never panics: a response message from the peer and a
   request with an extension method other than FLUSH lead to a response or
   to a return of run. *)
C36_HandlerNeverPanics ==
    handler.pc # "panicked"

(* ------------------------------------------------------------------ *)
(* The three receive workers of a session and the datagrams of their    *)
(* sockets.  A datagram is its length, whether RtpReader::new accepts   *)
(* it (never with fewer than 12 bytes), its payload type, the sequence  *)
(* number of its RTP header and its bytes 6 and 7.                      *)
(* ------------------------------------------------------------------ *)

DatagramLengths == {0, 8, 12, 15, 16, 20, 32}
PayloadTypes == {83, 84, 86, 96}
Datagrams ==
    [length : DatagramLengths, rtp_ok : BOOLEAN, payload_type : PayloadTypes,
     seq : {7}, b6 : {0, 255}, b7 : {1}]

RtpOk(d) == d.length >= 12 /\ d.rtp_ok

Received(outcome, seq, offset) ==
    [outcome |-> outcome, seq |-> seq, offset |-> offset]

(* One turn of ServerReceiver::run, ControlReceiver::run and
   TimingReceiver::run for a datagram: the worker returns, panics, sends
   PutPacket with seq and the bytes from offset on, or goes on with the
   next datagram. *)
server_receive(d) ==
    IF d.length = 0 THEN Received("returned", 0, 0)
    ELSE IF RtpOk(d) THEN Received("put", d.seq, 12)
    ELSE Received("ignored", 0, 0)

control_receive(d) ==
    IF d.length = 0 THEN Received("returned", 0, 0)
    ELSE IF RtpOk(d) /\ d.payload_type = 84 THEN Received("ignored", 0, 0)
    ELSE IF RtpOk(d) /\ d.payload_type = 86
    THEN IF 16 > d.length THEN Received("panic", 0, 0)
         ELSE Received("put", (d.b6 * 256 + d.b7) % SeqMod, 16)
    ELSE Received("ignored", 0, 0)

timing_receive(d) ==
    IF d.length = 0 THEN Received("returned", 0, 0)
    ELSE Received("ignored", 0, 0)

ReceiveInit ==
    /\ BufIdle /\ HandlerIdle
    /\ player = Setup(NoPlayer, TRUE)
    /\ control_chan = SetupChannel(NoChan, TRUE)
    /\ pev = NoPev
    /\ player_rx = <<>>
    /\ workers = [i \in {<<1, n>> : n \in Receivers \cup {"timing_receiver"}} |->
                     "running"]
    /\ requester = [h \in {} |-> "none"]
    /\ env = [commands |-> 0, datagrams |-> 0, setups |-> 1, cap |-> 0]
    /\ sysev = [kind |-> "none", worker |-> "none", datagram |-> None,
                got |-> Received("none", 0, 0)]
    /\ sink = NoSink
    /\ server = NoServer

(* recv_from returned a datagram.  A PutPacket is sent to the Player; the
   send fails when the Player is gone, and the worker returns the error. *)
ReceiveDatagram(i, d) ==
    /\ i \in DOMAIN workers
    /\ workers[i] = "running"
    /\ env.datagrams < MaxDatagrams
    /\ LET got == CASE i[2] = "server_receiver" -> server_receive(d)
                    [] i[2] = "control_receiver" -> control_receive(d)
                    [] OTHER -> timing_receive(d)
           goes_on == got.outcome = "ignored" \/ (got.outcome = "put" /\ PlayerAlive)
       IN  /\ workers' = IF goes_on THEN workers ELSE Without(workers, i)
           /\ sysev' = [kind |-> "datagram", worker |-> i[2], datagram |-> Some(d),
                        got |-> got]
    /\ env' = [env EXCEPT !.datagrams = @ + 1]
    /\ UNCHANGED <<player_rx, requester, server, sink, bufVars, playerVars, handlerVars>>

(* recv_from returned an error. *)
ReceiveSocketError(i) ==
    /\ i \in DOMAIN workers
    /\ workers[i] = "running"
    /\ workers' = Without(workers, i)
    /\ sysev' = [kind |-> "socket_error", worker |-> i[2], datagram |-> None,
                 got |-> Received("none", 0, 0)]
    /\ UNCHANGED <<player_rx, requester, env, server, sink, bufVars, playerVars, handlerVars>>

ReceiveNext ==
    \/ \E i \in Instances, d \in Datagrams : ReceiveDatagram(i, d)
    \/ \E i \in Instances : ReceiveSocketError(i)
    \/ \E i \in Instances : WorkerStop(i)
    \/ PlayerTeardown
    \/ PlayerShutdown

SpecReceive == ReceiveInit /\ [][ReceiveNext]_vars

(* C37: the control-receive worker never panics on a datagram: a type-86
   datagram of fewer than 16 bytes is ignored, and exactly the type-86
   datagrams of at least 16 bytes are forwarded, with seq from bytes 6-7
   and the payload from offset 16. *)
C37_ControlReceiveTotal ==
    (sysev.kind = "datagram" /\ sysev.worker = "control_receiver"
        /\ sysev.datagram[1].length > 0) =>
        LET d == sysev.datagram[1]
        IN  /\ sysev.got.outcome # "panic"
            /\ sysev.got.outcome = "put"
                 <=> (RtpOk(d) /\ d.payload_type = 86 /\ d.length >= 16)
            /\ sysev.got.outcome = "put" =>
                 /\ sysev.got.seq = d.b6 * 256 + d.b7
                 /\ sysev.got.offset = 16

\* a worker is there before the step and not after it
WorkerReturns(i) == i \in DOMAIN workers /\ i \notin DOMAIN workers'

(* C38: a receive worker returns only when its session's stop signal is
   there, when recv_from fails, or when the Player's command channel is
   closed: no datagram makes it return. *)
C38_ReceiverStopsOnlyOnSignal ==
    [][\A i \in Instances :
          WorkerReturns(i) =>
              \/ ~BusAlive(i[1])
              \/ sysev'.kind = "socket_error" /\ sysev'.worker = i[2]
              \/ ~PlayerAlive]_vars

(* ------------------------------------------------------------------ *)
(* A running session with audio: the Player has processed Announce,     *)
(* Setup and Record, packets arrive with gaps, and the ControlSender    *)
(* has not been polled yet, so that the control channel is full at      *)
(* first.  The handler has one more Setup or Teardown to send.          *)
(* ------------------------------------------------------------------ *)

(* PutPacket n times from seq on, every second sequence number: each
   packet leaves a gap and hands one MissingSeqs to the control channel. *)
RECURSIVE Backlog(_, _, _, _)
Backlog(p, chan, seq, n) ==
    IF n = 0
    THEN [player |-> p, chan |-> chan]
    ELSE LET e == PutPacket(p, chan, seq, TRUE)
         IN  Backlog(e.player, e.chan, (seq + 2) % SeqMod, n - 1)

(* The first sequence number of the session: ControlCap packets with gaps
   after it end two before the sequence number of the datagrams. *)
BacklogStart == (PlayerWindowStart + SeqMod - 2 * ControlCap - 2) % SeqMod

MediaCommands(h) ==
    {Cmd("Setup", h, 0, "none", TRUE), Cmd("Teardown", h, 0, "none", TRUE)}

MediaInit ==
    /\ BufIdle
    /\ HandlerIdle
    /\ LET p == Record(Setup(Announce(NoPlayer, "ok", TRUE), TRUE), BacklogStart)
           b == Backlog(p, SetupChannel(NoChan, TRUE),
                        (BacklogStart + 2) % SeqMod, ControlCap)
       IN  /\ player = b.player
           /\ control_chan = b.chan
    /\ pev = NoPev
    /\ player_rx = <<>>
    /\ workers = Spawn([i \in {} |-> "none"], 1, FALSE)
    /\ requester = [h \in {"h1"} |-> [pc |-> "idle", cmd |-> NoCommand]]
    /\ env = [commands |-> MaxCommands - 1, datagrams |-> 0, setups |-> 1,
              cap |-> SessionCap]
    /\ sysev = NoSysev
    /\ sink = SinkAppend(NoSink)
    /\ server = NoServer

MediaNext ==
    \/ \E h \in Handlers : \E cmd \in MediaCommands(h) : SysSend(h, cmd)
    \/ \E h \in Handlers : SysSendResume(h)
    \/ \E h \in Handlers : SysReplyLost(h)
    \/ SysPlayerStep
    \/ PlayerSendResume
    \/ PlayerShutdown
    \/ ControlSenderRecv
    \/ ControlSenderStop
    \/ \E i \in Instances : WorkerDatagram(i)
    \/ \E i \in Instances : WorkerSendResume(i)
    \/ \E i \in Instances : WorkerStop(i)

SpecMedia == MediaInit /\ [][MediaNext]_vars

(* The runtime polls every task that can make a step; a send that waits
   for room is served when there is room (the channels queue their
   senders), and a receiver whose channel holds a message takes it. *)
MediaFairness ==
    /\ SessionFairness
    /\ WF_vars(PlayerSendResume)
    /\ WF_vars(ControlSenderRecv)
    /\ \A h \in Handlers : WF_vars(SysSendResume(h))
    /\ \A h \in Handlers : WF_vars(SysReplyLost(h))

SpecMediaFair == MediaInit /\ [][MediaNext]_vars /\ MediaFairness


\* the Player processed a Setup that spawned workers in this step
SetupSpawns == env'.setups = env.setups + 1

(* C39: when Setup is processed while the workers of an earlier Setup are
   still running, each of the earlier five workers returns in the end, and
   from that Setup on the Player's control channel is the new one: it
   starts empty, its ControlSender is the one of the newest session, the
   ControlSender of the session before is with the workers that are going
   to return, and every MissingSeqs the Player delivers goes into it. *)
C39_OldWorkersReturn ==
    /\ \A s \in Sessions :
           (env.setups > s) ~> (\A w \in WorkerNames : ~Alive(s, w))
    /\ [][SetupSpawns =>
            /\ control_chan' = [queue |-> <<>>, open |-> TRUE]
            /\ Alive(env.setups, "control_sender") =>
                   <<env.setups, "control_sender">> \in DOMAIN workers'
            /\ \A w \in WorkerNames \ {"control_sender"} :
                   <<env'.setups, w>> \in DOMAIN workers']_vars
    /\ [][(pev'.kind = "put" /\ pev'.delivered
              /\ Len(control_chan'.queue) > Len(control_chan.queue)) =>
            /\ control_chan'.queue = Append(control_chan.queue, pev'.sent[1])
            /\ Alive(env.setups, "control_sender")]_vars

(* The second Setup was processed with all five workers of the first
   session running and MissingSeqs waiting in the first control channel;
   now the workers of the first session are gone, those of the second are
   all there, and a MissingSeqs has gone to the second ControlSender. *)
C39_Witness ==
    /\ env.setups = 2
    /\ PlayerAlive
    /\ \A w \in WorkerNames : ~Alive(1, w) /\ Alive(2, w)
    /\ pev.kind = "put" /\ pev.delivered
    /\ Len(control_chan.queue) = 1

(* C40: a Player that waits for room in the control channel, a worker that
   waits for room in the command channel and a handler that waits for room
   or for its reply each get on in the end: the send completes or fails
   because the channel is closed, the reply arrives or its sender is
   dropped. *)
C40_NoChannelDeadlock ==
    /\ (player.state = "sending") ~> (player.state # "sending")
    /\ \A i \in Sessions \X Receivers :
           (i \in DOMAIN workers /\ workers[i] = "sending")
               ~> (i \notin DOMAIN workers \/ workers[i] = "running")
    /\ \A h \in Handlers :
           (h \in DOMAIN requester /\ requester[h].pc \in {"sending", "waiting"})
               ~> (h \in DOMAIN requester /\ requester[h].pc \in {"replied", "failed"})

(* The Player waits for room in the full control channel while a worker
   waits for room in the command channel and the handler waits for the
   reply to the command that fills it. *)
C40_Witness ==
    /\ player.state = "sending"
    /\ Len(control_chan.queue) = ControlCap
    /\ \E i \in DOMAIN workers : workers[i] = "sending"
    /\ requester["h1"].pc = "waiting"

====
